---------------------------- MODULE Spec2Model ----------------------------
(***************************************************************************)
(* A model of djangorestframework-inclusions: the InclusionJSONRenderer    *)
(* (renderer.py), the inclusion engine behind it (data_inclusion.py) and   *)
(* the InclusionLoader (core.py).                                          *)
(*                                                                         *)
(* One behaviour is one call of InclusionJSONRenderer.render, or one call  *)
(* of InclusionLoader.inclusions_dict.  For a call of render, Init draws   *)
(* the call's inputs (the serializer that produced the payload, the rows   *)
(* of the data store, the response status, the view, the include query     *)
(* parameter); the actions follow render through extract_relations,        *)
(* determine_inclusion_definitions, merge_inclusion_definitions,           *)
(* extract_inclusions (first sweep, Inclusion.merge, the while/for loop)   *)
(* and hoist_inclusions, to the value handed to the JSON renderer.         *)
(*                                                                         *)
(* Conventions.  A dotted path ("parent.tags") is the sequence of its      *)
(* segments (<<"parent", "tags">>); an inclusion path ("app.T:f") is a     *)
(* record of its model key and its path.  A primary key is a positive      *)
(* integer and None, where a primary key is expected, is 0.  Rendered      *)
(* JSON values are tagged records [t |-> ..., v |-> ...].                  *)
(***************************************************************************)
EXTENDS Integers, Sequences, FiniteSets, TLC

\* Rows per model in the data store: every model has the rows 1..MaxId.
MaxId == 2
\* Depth of the schema walk's recursion at which Python's recursion limit is
\* taken to be hit (the walk of every acyclic schema below is far shallower).
MaxDepth == 8
\* data_inclusion.py:542, the round bound of the deferred-resolution loop.
MaxRounds == 200
\* Length of the lists of definitions handed to merge_inclusion_definitions
\* on their own.
MaxGiven == 4

None == 0

-----------------------------------------------------------------------------
(* Sequence helpers *)

\* {} : the dict without keys.
EmptyDict == [key \in {} |-> <<>>]

Range(s) == {s[k] : k \in DOMAIN s}

RECURSIVE Concat(_)
\* the concatenation of a sequence of sequences
Concat(ss) == IF ss = <<>> THEN <<>> ELSE Head(ss) \o Concat(Tail(ss))

RECURSIVE SelectSeqIdx(_, _)
\* the indices k of s, ascending, whose element is in the set keep
SelectSeqIdx(s, keep) ==
    IF s = <<>> THEN <<>>
    ELSE LET n == Len(s)
             init == SelectSeqIdx(SubSeq(s, 1, n - 1), keep)
         IN IF s[n] \in keep THEN Append(init, n) ELSE init

RECURSIVE SetToSeqAsc(_)
\* a finite set of integers as the ascending sequence of its elements
SetToSeqAsc(S) ==
    IF S = {} THEN <<>>
    ELSE LET m == CHOOSE x \in S : \A y \in S : x <= y
         IN <<m>> \o SetToSeqAsc(S \ {m})

Reverse(s) == [k \in 1..Len(s) |-> s[Len(s) + 1 - k]]

NoDuplicates(s) == \A a, b \in DOMAIN s : a # b => s[a] # s[b]

-----------------------------------------------------------------------------
(* The schemas: src/testapp/serializers.py over src/testapp/models.py, and *)
(* ChildPropsSerializer3, a chained schema that leads back into a type it  *)
(* already includes; ParentLinkSerializer, whose tags are included through *)
(* TagLinkSerializer, a hyperlinked serializer that renders nothing but    *)
(* the url of a tag; MisdeclaredSerializer, whose inclusion_serializers    *)
(* names a CharField; SecondLevelLinkSerializer, which leads to the main   *)
(* object along two branches, at once through main and through             *)
(* related_object.main, with a serializer class of its own on each branch  *)
(* (MainObjectShallowSerializer, and RelatedObjectLinkSerializer,          *)
(* MainObjectDeepSerializer, SecondLevelMainSerializer,                    *)
(* MainObjectIdSerializer); SecondLevelNestedSerializer, which includes    *)
(* main and nests related_object, whose main is included through a         *)
(* serializer that renders secondlevelrelatedobject_set without including  *)
(* it (RelatedObjectMainSerializer, MainObjectPlainSerializer);            *)
(* MainObjectDiamondSerializer, whose included second level objects        *)
(* (SecondLevelDiamondSerializer) lead to MainObjectDeepSerializer along   *)
(* main and along related_object.main; ChildNestedSerializer, whose nested *)
(* parent (ParentBackSerializer) includes its favourite child with         *)
(* ChildNestedSerializer again.                                            *)

Fld(name, kind, model, ser) ==
    [name |-> name, kind |-> kind, model |-> model, ser |-> ser, ro |-> FALSE]

\* kind: "pk", "url" (a HyperlinkedIdentityField) and "scalar" are primitive
\* fields, "related" a PrimaryKeyRelatedField,
\* "many" a ManyRelatedField, "nested" a nested serializer and "nestedmany"
\* a nested serializer with many=True.  model: the model of a relational
\* field's queryset.  ser: the serializer class of a nested field.
Fields(s) ==
    CASE s = "TagSerializer" ->
           <<Fld("id", "pk", "", ""), Fld("name", "scalar", "", "")>>
      [] s = "ParentSerializer" ->
           <<Fld("id", "pk", "", ""), Fld("name", "scalar", "", ""),
             Fld("favourite_child", "related", "testapp.Child", ""),
             Fld("tags", "many", "testapp.Tag", "")>>
      [] s = "ChildPropsSerializer" ->
           <<Fld("id", "pk", "", ""),
             Fld("child", "related", "testapp.Child", "")>>
      [] s = "ChildSerializer" ->
           <<Fld("id", "pk", "", ""),
             Fld("parent", "nested", "", "ParentSerializer"),
             Fld("name", "scalar", "", ""),
             Fld("childprops", "related", "testapp.ChildProps", ""),
             Fld("tags", "many", "testapp.Tag", "")>>
      [] s = "ParentSerializer2" ->
           <<Fld("id", "pk", "", ""),
             Fld("favourite_child", "related", "testapp.Child", "")>>
      [] s = "ChildSerializer3" ->
           <<Fld("id", "pk", "", ""),
             Fld("parent", "related", "testapp.Parent", "")>>
      [] s = "ChildPropsSerializer3" ->
           <<Fld("id", "pk", "", ""),
             Fld("child", "related", "testapp.Child", "")>>
      [] s = "ASerializer" ->
           <<Fld("id", "pk", "", "")>>
      [] s = "BSerializer" ->
           <<Fld("id", "pk", "", ""), Fld("a", "related", "testapp.A", "")>>
      [] s = "CSerializer" ->
           <<Fld("id", "pk", "", ""), Fld("b", "nested", "", "BSerializer")>>
      [] s = "CInclusionSerializer" ->
           <<Fld("id", "pk", "", ""), Fld("b", "related", "testapp.B", "")>>
      [] s = "DSerializer" ->
           <<Fld("id", "pk", "", ""),
             Fld("tags1", "many", "testapp.Tag", ""),
             Fld("tags2", "many", "testapp.Tag", "")>>
      [] s = "ESerializer" ->
           <<Fld("id", "pk", "", ""), Fld("d", "related", "testapp.D", "")>>
      [] s = "SecondLevelRelatedObjectSerializer" ->
           <<Fld("id", "pk", "", "")>>
      [] s = "RelatedObjectSerializer" ->
           <<Fld("id", "pk", "", ""), Fld("a", "related", "testapp.A", ""),
             Fld("secondlevelrelatedobject_set", "nestedmany", "",
                 "SecondLevelRelatedObjectSerializer")>>
      [] s = "MainObjectSerializer" ->
           <<Fld("id", "pk", "", ""),
             Fld("relatedobject_set", "nestedmany", "", "RelatedObjectSerializer")>>
      [] s = "TagLinkSerializer" ->
           <<Fld("url", "url", "", "")>>
      [] s = "ParentLinkSerializer" ->
           <<Fld("id", "pk", "", ""), Fld("tags", "many", "testapp.Tag", "")>>
      [] s = "MisdeclaredSerializer" ->
           <<Fld("id", "pk", "", ""), Fld("name", "scalar", "", "")>>
      [] s = "SecondLevelLinkSerializer" ->
           <<Fld("id", "pk", "", ""),
             Fld("main", "related", "testapp.MainObject", ""),
             Fld("related_object", "related", "testapp.RelatedObject", "")>>
      [] s = "SecondLevelNestedSerializer" ->
           <<Fld("id", "pk", "", ""),
             Fld("main", "related", "testapp.MainObject", ""),
             Fld("related_object", "nested", "", "RelatedObjectMainSerializer")>>
      [] s = "ChildNestedSerializer" ->
           <<Fld("id", "pk", "", ""),
             Fld("parent", "nested", "", "ParentBackSerializer")>>
      [] s = "ParentBackSerializer" ->
           <<Fld("id", "pk", "", ""),
             Fld("favourite_child", "related", "testapp.Child", "")>>
      [] s = "SecondLevelDiamondSerializer" ->
           <<Fld("id", "pk", "", ""),
             Fld("main", "related", "testapp.MainObject", ""),
             Fld("related_object", "related", "testapp.RelatedObject", "")>>
      [] s \in {"MainObjectShallowSerializer", "MainObjectDeepSerializer",
                "MainObjectPlainSerializer", "MainObjectDiamondSerializer"} ->
           <<Fld("id", "pk", "", ""),
             Fld("secondlevelrelatedobject_set", "many",
                 "testapp.SecondLevelRelatedObject", "")>>
      [] s \in {"RelatedObjectLinkSerializer", "SecondLevelMainSerializer",
                "RelatedObjectMainSerializer"} ->
           <<Fld("id", "pk", "", ""),
             Fld("main", "related", "testapp.MainObject", "")>>
      [] s = "MainObjectIdSerializer" ->
           <<Fld("id", "pk", "", "")>>

\* The inclusion_serializers attribute: field name -> serializer class.
InclusionSerializers(s) ==
    CASE s = "ParentSerializer" -> ("tags" :> "TagSerializer")
      [] s = "ChildSerializer" ->
           ("childprops" :> "ChildPropsSerializer") @@ ("tags" :> "TagSerializer")
      [] s = "ParentSerializer2" -> ("favourite_child" :> "ChildSerializer3")
      [] s = "ChildSerializer3" -> ("parent" :> "ParentSerializer2")
      [] s = "ChildPropsSerializer3" -> ("child" :> "ChildSerializer3")
      [] s = "BSerializer" -> ("a" :> "ASerializer")
      [] s = "CInclusionSerializer" -> ("b" :> "BSerializer")
      [] s = "DSerializer" ->
           ("tags1" :> "TagSerializer") @@ ("tags2" :> "TagSerializer")
      [] s = "ESerializer" -> ("d" :> "DSerializer")
      [] s = "RelatedObjectSerializer" -> ("a" :> "ASerializer")
      [] s = "ParentLinkSerializer" -> ("tags" :> "TagLinkSerializer")
      [] s = "MisdeclaredSerializer" -> ("name" :> "TagSerializer")
      [] s = "SecondLevelLinkSerializer" ->
           ("main" :> "MainObjectShallowSerializer")
           @@ ("related_object" :> "RelatedObjectLinkSerializer")
      [] s = "MainObjectShallowSerializer" ->
           ("secondlevelrelatedobject_set" :> "SecondLevelRelatedObjectSerializer")
      [] s = "RelatedObjectLinkSerializer" -> ("main" :> "MainObjectDeepSerializer")
      [] s = "MainObjectDeepSerializer" ->
           ("secondlevelrelatedobject_set" :> "SecondLevelMainSerializer")
      [] s = "SecondLevelMainSerializer" -> ("main" :> "MainObjectIdSerializer")
      [] s = "SecondLevelNestedSerializer" ->
           ("main" :> "MainObjectShallowSerializer")
      [] s = "ParentBackSerializer" ->
           ("favourite_child" :> "ChildNestedSerializer")
      [] s = "MainObjectDiamondSerializer" ->
           ("secondlevelrelatedobject_set" :> "SecondLevelDiamondSerializer")
      [] s = "SecondLevelDiamondSerializer" ->
           ("main" :> "MainObjectDeepSerializer")
           @@ ("related_object" :> "RelatedObjectLinkSerializer")
      [] s = "RelatedObjectMainSerializer" ->
           ("main" :> "MainObjectPlainSerializer")
      [] OTHER -> EmptyDict

\* Meta.model of a serializer class, as its label.
MetaModel(s) ==
    CASE s \in {"TagSerializer", "TagLinkSerializer"} -> "testapp.Tag"
      [] s \in {"ParentSerializer", "ParentSerializer2",
                "ParentLinkSerializer", "ParentBackSerializer"} ->
           "testapp.Parent"
      [] s = "MisdeclaredSerializer" -> "testapp.Company"
      [] s \in {"ChildSerializer", "ChildSerializer3", "ChildNestedSerializer"} ->
           "testapp.Child"
      [] s \in {"ChildPropsSerializer", "ChildPropsSerializer3"} ->
           "testapp.ChildProps"
      [] s = "ASerializer" -> "testapp.A"
      [] s = "BSerializer" -> "testapp.B"
      [] s \in {"CSerializer", "CInclusionSerializer"} -> "testapp.C"
      [] s = "DSerializer" -> "testapp.D"
      [] s = "ESerializer" -> "testapp.E"
      [] s \in {"RelatedObjectSerializer", "RelatedObjectLinkSerializer",
                "RelatedObjectMainSerializer"} ->
           "testapp.RelatedObject"
      [] s \in {"SecondLevelRelatedObjectSerializer",
                "SecondLevelLinkSerializer", "SecondLevelMainSerializer",
                "SecondLevelNestedSerializer",
                "SecondLevelDiamondSerializer"} ->
           "testapp.SecondLevelRelatedObject"
      [] s \in {"MainObjectSerializer", "MainObjectShallowSerializer",
                "MainObjectDeepSerializer", "MainObjectIdSerializer",
                "MainObjectPlainSerializer", "MainObjectDiamondSerializer"} ->
           "testapp.MainObject"

\* The serializers a viewset of the test application answers with.
RootSerializers ==
    {"TagSerializer", "ParentSerializer", "ChildSerializer", "ChildSerializer3",
     "ChildPropsSerializer3", "CSerializer", "CInclusionSerializer",
     "ESerializer", "MainObjectSerializer", "ParentLinkSerializer",
     "MisdeclaredSerializer"}

FieldNames(s) == [k \in DOMAIN Fields(s) |-> Fields(s)[k].name]

IsRelational(f) == f.kind \in {"related", "many"}
IsSerializerField(f) == f.kind \in {"nested", "nestedmany"}

-----------------------------------------------------------------------------
(* The data store.  Every model has the rows 1..MaxId; a relation of a     *)
(* model is laid out over its rows by one of five patterns.                *)

VARIABLES
    db,          \* the data store: <<model, attribute>> -> pattern
    storeDesc    \* whether the store returns rows in descending pk order

Ids == 1..MaxId
Patterns == {"none", "same", "own", "next", "first"}

\* The value of a to-one relation laid out by pattern p, on row i.
ToOne(p, i) ==
    CASE p = "none" -> None
      [] p = "same" -> 1
      [] p = "own" -> i
      [] p = "next" -> (i % MaxId) + 1
      [] p = "first" -> IF i = 1 THEN 1 ELSE None

\* The value of a to-many relation laid out by pattern p, on row i.
ToMany(p, i) ==
    CASE p = "none" -> {}
      [] p = "same" -> {1}
      [] p = "own" -> {i}
      [] p = "next" -> {i, (i % MaxId) + 1}
      [] p = "first" -> IF i = 1 THEN Ids ELSE {}

AllSerializers ==
    {"TagSerializer", "ParentSerializer", "ChildPropsSerializer",
     "ChildSerializer", "ParentSerializer2", "ChildSerializer3",
     "ChildPropsSerializer3", "ASerializer", "BSerializer", "CSerializer",
     "CInclusionSerializer", "DSerializer", "ESerializer",
     "SecondLevelRelatedObjectSerializer", "RelatedObjectSerializer",
     "MainObjectSerializer", "TagLinkSerializer", "ParentLinkSerializer",
     "MisdeclaredSerializer", "SecondLevelLinkSerializer",
     "MainObjectShallowSerializer", "MainObjectDeepSerializer",
     "RelatedObjectLinkSerializer", "SecondLevelMainSerializer",
     "MainObjectIdSerializer", "SecondLevelNestedSerializer",
     "RelatedObjectMainSerializer", "MainObjectPlainSerializer",
     "MainObjectDiamondSerializer", "SecondLevelDiamondSerializer",
     "ChildNestedSerializer", "ParentBackSerializer"}

\* The relations of its model along which inclusions follow a serializer:
\* its nested serializers and the fields that have an inclusion serializer.
AttrsOf(s) ==
    {<<MetaModel(s), Fields(s)[k].name>> :
        k \in {j \in DOMAIN Fields(s) :
                 \/ IsSerializerField(Fields(s)[j])
                 \/ Fields(s)[j].name \in DOMAIN InclusionSerializers(s)}}

\* All the relations the serializers read off their models.
ReadAttrs(s) ==
    {<<MetaModel(s), Fields(s)[k].name>> :
        k \in {j \in DOMAIN Fields(s) :
                 IsRelational(Fields(s)[j]) \/ IsSerializerField(Fields(s)[j])}}

AllAttrs == UNION {ReadAttrs(s) : s \in AllSerializers}

\* The serializer classes a serializer leads to in one step: its nested
\* serializers and its inclusion serializers.
NextSerializers(s) ==
    {Fields(s)[k].ser : k \in {j \in DOMAIN Fields(s) : IsSerializerField(Fields(s)[j])}}
    \cup {InclusionSerializers(s)[n] : n \in DOMAIN InclusionSerializers(s)}

RECURSIVE ReachableFrom(_)
\* The serializer classes reachable from those of S.
ReachableFrom(S) ==
    LET T == S \cup UNION {NextSerializers(s) : s \in S}
    IN IF T = S THEN S ELSE ReachableFrom(T)

\* The relations inclusions can follow in a response rendered by
\* serializer s.
FreeAttrs(s) == UNION {AttrsOf(r) : r \in ReachableFrom({s})}

\* The data stores considered for a response of serializer s: every layout
\* of the relations inclusions can follow in it; the others are empty.
Stores(s) ==
    {[a \in AllAttrs |-> IF a \in FreeAttrs(s) THEN f[a] ELSE "none"] :
        f \in [FreeAttrs(s) -> Patterns]}

\* instance.<attr> for row i of a model: a pk or None (to-one), a set of pks
\* (to-many).
AttrOne(model, i, attr) == ToOne(db[<<model, attr>>], i)
AttrMany(model, i, attr) == ToMany(db[<<model, attr>>], i)

\* queryset.filter(pk__in=pks), in the order the store returns the rows: the
\* rows of the model whose pk is among pks (None matches no row).
QuerysetFilter(model, pks) ==
    LET asc == SetToSeqAsc(pks \cap Ids)
    IN IF storeDesc THEN Reverse(asc) ELSE asc

-----------------------------------------------------------------------------
(* Rendered values: what serializer.data holds.                            *)

Null == [t |-> "null", v |-> 0]
\* The url of row i of a model; the urls of a model sort as its pks do.
UrlValue(i) == [t |-> "url", v |-> i]
PkValue(i) == IF i = None THEN Null ELSE [t |-> "pk", v |-> i]
StrValue(x) == [t |-> "str", v |-> x]
ListValue(seq) == [t |-> "list", v |-> seq]
DictValue(f) == [t |-> "dict", v |-> f]

IsList(x) == x.t \in {"list", "ReturnList"}
IsDict(x) == x.t \in {"dict", "ReturnDict"}

RECURSIVE ToRepresentation(_, _)
\* Serializer.to_representation: serializer class s over row i of its model.
\* A many-valued field lists its rows in the model's ordering (by pk).
ToRepresentation(s, i) ==
    LET fs == Fields(s)
        m == MetaModel(s)
        value(f) ==
            CASE f.kind = "pk" -> PkValue(i)
              [] f.kind = "url" -> UrlValue(i)
              [] f.kind = "scalar" -> StrValue(f.name)
              [] f.kind = "related" -> PkValue(AttrOne(m, i, f.name))
              [] f.kind = "many" ->
                   LET ids == SetToSeqAsc(AttrMany(m, i, f.name))
                   IN ListValue([k \in DOMAIN ids |-> PkValue(ids[k])])
              [] f.kind = "nested" ->
                   LET j == AttrOne(m, i, f.name)
                   IN IF j = None THEN Null ELSE ToRepresentation(f.ser, j)
              [] f.kind = "nestedmany" ->
                   LET ids == SetToSeqAsc(AttrMany(m, i, f.name))
                   IN ListValue([k \in DOMAIN ids |-> ToRepresentation(f.ser, ids[k])])
    IN DictValue([n \in Range(FieldNames(s)) |->
                    value(fs[CHOOSE k \in DOMAIN fs : fs[k].name = n])])

\* serializer_class(instance=instances, many=True).data
SerializeMany(s, ids) == [k \in DOMAIN ids |-> ToRepresentation(s, ids[k])]

-----------------------------------------------------------------------------
(* Identifier Extractor: get_pks (data_inclusion.py:435-454).              *)

\* What get_pks yields in place of raising KeyError: the serializer data
\* has no such key.
KeyError == -1

RECURSIVE get_pks(_, _)
\* serializer_data: a rendered value (Null, a list, a dict); data_path: a
\* non-empty sequence of keys.  The pks at the path, in payload order, None
\* included where a single-valued reference is null.
get_pks(serializer_data, data_path) ==
    IF serializer_data.t = "null" THEN <<>>
    ELSE IF IsList(serializer_data)
    THEN Concat([k \in DOMAIN serializer_data.v |->
                    get_pks(serializer_data.v[k], data_path)])
    ELSE IF Head(data_path) \notin DOMAIN serializer_data.v THEN <<KeyError>>
    ELSE LET item == serializer_data.v[Head(data_path)]
         IN IF Len(data_path) > 1
            THEN get_pks(item, Tail(data_path))
            ELSE IF IsList(item)
                 THEN [k \in DOMAIN item.v |-> item.v[k].v]
                 ELSE <<item.v>>

-----------------------------------------------------------------------------
(* InclusionDefinition (data_inclusion.py:16-89).                          *)

\* inclusion_path = None; also inclusion_path_start = None.
NoPath == [model_key |-> "", path |-> <<>>]

\* field: the serializer field the definition was derived from, with the
\* serializer class that owns it.
InclusionDefinition(owner, f, serializer_class, data_path, inclusion_path) ==
    [field |-> [owner |-> owner, name |-> f.name, kind |-> f.kind,
                model |-> f.model, ro |-> f.ro],
     serializer_class |-> serializer_class,
     data_paths |-> <<data_path>>,
     inclusion_path |-> inclusion_path]

\* InclusionDefinition.queryset, as the model it ranges over: the field's
\* queryset, or serializer_class.Meta.model's default queryset when the field
\* is read-only (its queryset is None).
QuerysetModel(d) ==
    IF d.field.ro THEN MetaModel(d.serializer_class) ELSE d.field.model

\* InclusionDefinition.model_key
model_key(d) == QuerysetModel(d)

\* InclusionDefinition.roots
roots(d) == [k \in DOMAIN d.data_paths |-> Head(d.data_paths[k])]

\* "self.queryset is other.queryset": the queryset of a relational field of
\* a ModelSerializer is the default manager of the related model, one object
\* per model; a read-only field has none, and each access of the property
\* then builds a new queryset, identical to no other.
SameQueryset(a, b) ==
    /\ ~a.field.ro
    /\ ~b.field.ro
    /\ a.field.model = b.field.model

\* A test that looks at the inclusion paths and the querysets and not at
\* the serializer classes.
MergeableBySource(a, b) ==
    /\ a.inclusion_path = NoPath
    /\ b.inclusion_path = NoPath
    /\ SameQueryset(a, b)

\* InclusionDefinition.is_mergeable_with
is_mergeable_with(a, b) ==
    /\ a.inclusion_path = NoPath
    /\ b.inclusion_path = NoPath
    /\ SameQueryset(a, b)
    /\ a.serializer_class = b.serializer_class

-----------------------------------------------------------------------------
(* Schema Graph Walker: determine_inclusion_definitions and its helpers    *)
(* (data_inclusion.py:271-317, 378-432).                                   *)

\* get_data_path; data_path_start = None is the empty path.
get_data_path(data_path_start, name) == Append(data_path_start, name)

\* get_inclusion_path: None without a start; "start:name" when the start is
\* a bare model key and "start.name" when it already holds a path.
get_inclusion_path(inclusion_path_start, name) ==
    IF inclusion_path_start = NoPath THEN NoPath
    ELSE [model_key |-> inclusion_path_start.model_key,
          path |-> Append(inclusion_path_start.path, name)]

\* get_inclusion_serializer_class; "" is None.
get_inclusion_serializer_class(serializer, field_name) ==
    IF field_name \in DOMAIN InclusionSerializers(serializer)
    THEN InclusionSerializers(serializer)[field_name]
    ELSE ""

\* The references argument: None, or a dict serializer class -> referrers,
\* kept as the sequence of its (class, referrer) entries in insertion order.
NoReferences == [none |-> TRUE, entries |-> <<>>]

\* A cycle check that finds no referrer recorded.
NeverRecorded(entries, cls, referrer) == FALSE

\* Lines 404-410: whether the referrer is already recorded for the class.
IsRecorded(entries, cls, referrer) ==
    [cls |-> cls, referrer |-> referrer] \in Range(entries)

\* The result of a walk: the definitions; references as the walk leaves the
\* caller's object; the final contents of the dicts the walk created;
\* overflow when the recursion did not end within MaxDepth levels.
WalkResult(defs, references, dicts, overflow) ==
    [defs |-> defs, references |-> references, dicts |-> dicts,
     overflow |-> overflow]

RECURSIVE determine_inclusion_definitions(_, _, _, _, _)
RECURSIVE get_related_inclusion_definitions(_, _, _, _, _, _)
RECURSIVE DetermineFrom(_, _, _, _, _, _)

\* get_nested_inclusion_definitions: the recursion into a nested serializer
\* passes no references on.
get_nested_inclusion_definitions(f, data_path, inclusion_path, depth) ==
    determine_inclusion_definitions(f.ser, data_path, inclusion_path,
                                    NoReferences, depth + 1)

get_related_inclusion_definitions(serializer, f, data_path, inclusion_path, references, depth) ==
    LET \* references = references or {}
        fresh == references.none \/ references.entries = <<>>
        entries == IF fresh THEN <<>> ELSE references.entries
        cls == get_inclusion_serializer_class(serializer, f.name)
        referrer == <<serializer, f.name>>
    IN IF cls = "" THEN WalkResult(<<>>, references, <<>>, FALSE)
       ELSE IF IsRecorded(entries, cls, referrer)
       THEN WalkResult(<<>>, references, <<>>, FALSE)
       ELSE LET definition == InclusionDefinition(serializer, f, cls,
                                                  data_path, inclusion_path)
                rec == determine_inclusion_definitions(
                           cls, data_path,
                           [model_key |-> model_key(definition), path |-> <<>>],
                           [none |-> FALSE,
                            entries |-> Append(entries,
                                               [cls |-> cls, referrer |-> referrer])],
                           depth + 1)
            IN WalkResult(<<definition>> \o rec.defs,
                          IF fresh THEN references ELSE rec.references,
                          IF fresh THEN <<rec.references.entries>> \o rec.dicts
                          ELSE rec.dicts,
                          rec.overflow)

\* The loop of determine_inclusion_definitions over serializer.fields, from
\* the k-th field on.
DetermineFrom(serializer, k, data_path_start, inclusion_path_start, references, depth) ==
    IF k > Len(Fields(serializer))
    THEN WalkResult(<<>>, references, <<>>, FALSE)
    ELSE LET f == Fields(serializer)[k]
             data_path == get_data_path(data_path_start, f.name)
             inclusion_path == get_inclusion_path(inclusion_path_start, f.name)
             one == IF ~(IsRelational(f) \/ IsSerializerField(f))
                    THEN WalkResult(<<>>, references, <<>>, FALSE)
                    ELSE IF IsSerializerField(f)
                    THEN LET r == get_nested_inclusion_definitions(
                                      f, data_path, inclusion_path, depth)
                         IN WalkResult(r.defs, references, r.dicts, r.overflow)
                    ELSE get_related_inclusion_definitions(
                             serializer, f, data_path, inclusion_path,
                             references, depth)
         IN IF one.overflow THEN one
            ELSE LET rest == DetermineFrom(serializer, k + 1, data_path_start,
                                           inclusion_path_start,
                                           one.references, depth)
                 IN WalkResult(one.defs \o rest.defs, rest.references,
                               one.dicts \o rest.dicts, rest.overflow)

determine_inclusion_definitions(serializer, data_path_start, inclusion_path_start, references, depth) ==
    IF depth > MaxDepth THEN WalkResult(<<>>, references, <<>>, TRUE)
    ELSE DetermineFrom(serializer, 1, data_path_start, inclusion_path_start,
                       references, depth)

-----------------------------------------------------------------------------
(* Definition Merger: merge_inclusion_definitions                          *)
(* (data_inclusion.py:320-375).                                            *)

RECURSIVE MergeFrom(_, _, _)
\* The loop over definitions from the k-th on; inputs holds the positions
\* not yet consumed.
MergeFrom(definitions, k, inputs) ==
    IF k > Len(definitions) THEN <<>>
    ELSE IF k \notin inputs THEN MergeFrom(definitions, k + 1, inputs)
    ELSE LET definition == definitions[k]
             matching == {j \in inputs :
                            /\ j # k
                            /\ is_mergeable_with(definitions[j], definition)}
             matching_defs == SelectSeqIdx([j \in DOMAIN definitions |-> j], matching)
             data_paths ==
                 definition.data_paths
                 \o Concat([j \in DOMAIN matching_defs |->
                              definitions[matching_defs[j]].data_paths])
         IN <<[definition EXCEPT !.data_paths = data_paths]>>
            \o MergeFrom(definitions, k + 1, (inputs \ {k}) \ matching)

RECURSIVE MergeOneFrom(_, _, _)
\* A loop that joins a definition with the first definition that matches
\* it and with no other.
MergeOneFrom(definitions, k, inputs) ==
    IF k > Len(definitions) THEN <<>>
    ELSE IF k \notin inputs THEN MergeOneFrom(definitions, k + 1, inputs)
    ELSE LET definition == definitions[k]
             matching == {j \in inputs :
                            /\ j # k
                            /\ is_mergeable_with(definitions[j], definition)}
             first == {j \in matching : \A m \in matching : j <= m}
             data_paths ==
                 definition.data_paths
                 \o Concat([j \in 1..Cardinality(first) |->
                              definitions[CHOOSE m \in first : TRUE].data_paths])
         IN <<[definition EXCEPT !.data_paths = data_paths]>>
            \o MergeOneFrom(definitions, k + 1, (inputs \ {k}) \ first)

MergeWithFirstMatch(definitions) ==
    MergeOneFrom(definitions, 1, DOMAIN definitions)

merge_inclusion_definitions(definitions) ==
    MergeFrom(definitions, 1, DOMAIN definitions)

-----------------------------------------------------------------------------
(* Inclusion (data_inclusion.py:92-195).                                   *)

\* Inclusion.__init__
Inclusion(definition) ==
    [definition |-> definition, resolved |-> FALSE, pks |-> {}]

\* Inclusion.add_objects: pks is a set, the added pks a sequence.
add_objects(inclusion, pks) ==
    [inclusion EXCEPT !.pks = @ \cup Range(pks)]

\* Inclusion.resolve
resolve(inclusion, pks) ==
    [add_objects(inclusion, pks) EXCEPT !.resolved = TRUE]

\* A fetch for each pk of the inclusion.
FetchesPerPk(inclusion) == Cardinality(inclusion.pks)

\* Inclusion.data, line 193: the fetches of one evaluation, the one
\* queryset.filter(pk__in=self.pks) for the whole set of pks.
DataFetches(inclusion) == 1

\* The fetches of the evaluation of Inclusion.data on each of the
\* inclusions.
RECURSIVE FetchesOf(_)
FetchesOf(inclusions) ==
    IF inclusions = <<>> THEN 0
    ELSE DataFetches(Head(inclusions)) + FetchesOf(Tail(inclusions))

\* Inclusion.data: one fetch of the rows whose pk is in pks, rendered with
\* the definition's serializer class.
InclusionData(inclusion) ==
    SerializeMany(inclusion.definition.serializer_class,
                  QuerysetFilter(model_key(inclusion.definition), inclusion.pks))

\* Python's order of the strings the schemas use: model labels and field
\* names.
SortedNames ==
    <<"a", "b", "child", "childprops", "d", "favourite_child", "id", "main",
      "name", "parent", "related_object", "relatedobject_set",
      "secondlevelrelatedobject_set", "tags",
      "tags1", "tags2", "testapp.A", "testapp.B", "testapp.C", "testapp.Child",
      "testapp.ChildProps", "testapp.D", "testapp.E", "testapp.MainObject",
      "testapp.Parent", "testapp.RelatedObject",
      "testapp.SecondLevelRelatedObject", "testapp.Tag">>

NameRank(n) == CHOOSE k \in DOMAIN SortedNames : SortedNames[k] = n

RECURSIVE SegmentsLess(_, _)
\* Python's "<" on two dotted paths of such names.
SegmentsLess(p, q) ==
    IF p = <<>> THEN q # <<>>
    ELSE IF q = <<>> THEN FALSE
    ELSE IF Head(p) = Head(q) THEN SegmentsLess(Tail(p), Tail(q))
    ELSE NameRank(Head(p)) < NameRank(Head(q))

\* Python's "<" on two inclusion paths "model_key:path".
InclusionPathLess(a, b) ==
    IF a.model_key = b.model_key THEN SegmentsLess(a.path, b.path)
    ELSE NameRank(a.model_key) < NameRank(b.model_key)

RECURSIVE SortInclusionPaths(_)
\* A set of inclusion paths in ascending order.
SortInclusionPaths(S) ==
    IF S = {} THEN <<>>
    ELSE LET m == CHOOSE x \in S : \A y \in S \ {x} : InclusionPathLess(x, y)
         IN <<m>> \o SortInclusionPaths(S \ {m})

RECURSIVE FirstOccurrences(_)
\* The distinct elements of a sequence, in the order they first occur: the
\* keys of a dict filled in that order.
FirstOccurrences(s) ==
    IF s = <<>> THEN <<>>
    ELSE LET init == FirstOccurrences(SubSeq(s, 1, Len(s) - 1))
         IN IF s[Len(s)] \in Range(init) THEN init ELSE Append(init, s[Len(s)])

\* Lines 136-143: the resolved inclusions of one model become one resolved
\* inclusion with the first one's definition and the union of the pks.
MergeResolved(resolved_inclusions) ==
    IF resolved_inclusions = <<>> THEN <<>>
    ELSE <<resolve(Inclusion(resolved_inclusions[1].definition),
                   SetToSeqAsc(UNION {resolved_inclusions[k].pks :
                                         k \in DOMAIN resolved_inclusions}))>>

\* A merge that makes one inclusion of the unresolved inclusions of a
\* model, whatever their inclusion paths.
MergeUnresolvedByModel(unresolved_inclusions) ==
    IF unresolved_inclusions = <<>> THEN <<>>
    ELSE <<Inclusion(unresolved_inclusions[1].definition)>>

\* Lines 145-164: the unresolved inclusions of one model, sorted and grouped
\* by inclusion path; one unresolved inclusion per group, with the
\* definition of the group's first member.
MergeUnresolved(unresolved_inclusions) ==
    LET paths == SortInclusionPaths(
                     {unresolved_inclusions[k].definition.inclusion_path :
                         k \in DOMAIN unresolved_inclusions})
        group(p) == LET same(incl) == incl.definition.inclusion_path = p
                    IN SelectSeq(unresolved_inclusions, same)
    IN [k \in DOMAIN paths |-> Inclusion(group(paths[k])[1].definition)]

\* Inclusion.merge: the merged inclusions, model by model in the order the
\* models first occur.
InclusionMerge(inclusions) ==
    LET keys == FirstOccurrences([k \in DOMAIN inclusions |->
                                     model_key(inclusions[k].definition)])
        of(key) == LET has(incl) == model_key(incl.definition) = key
                   IN SelectSeq(inclusions, has)
        isResolved(incl) == incl.resolved
        isUnresolved(incl) == ~incl.resolved
        perModel(key) == MergeResolved(SelectSeq(of(key), isResolved))
                         \o MergeUnresolved(SelectSeq(of(key), isUnresolved))
    IN Concat([k \in DOMAIN keys |-> perModel(keys[k])])

\* Lines 160-163: the assertion of Inclusion.merge fails when an unresolved
\* inclusion carries pks.
MergeAssertionFails(inclusions) ==
    \E k \in DOMAIN inclusions :
        ~inclusions[k].resolved /\ inclusions[k].pks # {}

-----------------------------------------------------------------------------
(* Inclusion Resolver: extract_inclusions (data_inclusion.py:457-567).     *)

\* A get_nested that finds no nested path.
GetNestedNothing(to_include) == EmptyDict

\* get_nested: first segment -> the remainders of the paths that have one.
get_nested(to_include) ==
    LET nestedPaths == LET deep(p) == Len(p) > 1 IN SelectSeq(to_include, deep)
    IN [r \in {nestedPaths[k][1] : k \in DOMAIN nestedPaths} |->
          LET under(p) == p[1] = r
              mine == SelectSeq(nestedPaths, under)
          IN [k \in DOMAIN mine |-> Tail(mine[k])]]

Wildcard == <<<<"*">>>>

\* Lines 492-495: to_include after the expansion of the wildcard.
ExpandedToInclude(serializer, to_include) ==
    IF to_include = Wildcard
    THEN [k \in DOMAIN Fields(serializer) |-> <<Fields(serializer)[k].name>>]
    ELSE to_include

\* Lines 485-499: requested_roots.
RequestedRoots(serializer, to_include) ==
    LET expanded == ExpandedToInclude(serializer, to_include)
        nested == IF to_include = Wildcard
                  THEN [r \in Range(FieldNames(serializer)) |-> Wildcard]
                  ELSE get_nested(to_include)
    IN {expanded[k][1] : k \in {j \in DOMAIN expanded : Len(expanded[j]) = 1}}
       \cup DOMAIN nested

\* Lines 504, 553: relevant_roots.
RelevantRoots(definition, requested_roots) ==
    Range(roots(definition)) \cap requested_roots

\* A first sweep that collects the pks of all the data paths of a
\* definition, requested or not.
SweptAllPaths(definition, relevant_roots) == definition.data_paths

\* Lines 521-525: the data paths of a definition whose pks the first sweep
\* collects.
SweptPaths(definition, relevant_roots) ==
    LET wanted(p) == Head(p) \in relevant_roots
    IN SelectSeq(definition.data_paths, wanted)

\* Lines 503-527, for one definition: no inclusion (<<>>), a deferred one,
\* or one resolved from the serializer data.
SweepOne(definition, requested_roots, serializer_data) ==
    LET relevant_roots == RelevantRoots(definition, requested_roots)
    IN IF relevant_roots = {} /\ definition.inclusion_path = NoPath THEN <<>>
       ELSE IF definition.inclusion_path # NoPath THEN <<Inclusion(definition)>>
       ELSE LET paths == SweptPaths(definition, relevant_roots)
                pks == Concat([k \in DOMAIN paths |->
                                  get_pks(serializer_data, paths[k])])
            IN <<resolve(Inclusion(definition), pks)>>

\* The first sweep over all the definitions.
FirstSweep(inclusion_definitions, requested_roots, serializer_data) ==
    Concat([k \in DOMAIN inclusion_definitions |->
              SweepOne(inclusion_definitions[k], requested_roots,
                       serializer_data)])

\* The calls of get_pks the first sweep makes.
FirstSweepCalls(inclusion_definitions, requested_roots) ==
    LET n(d) == IF d.inclusion_path # NoPath THEN 0
                ELSE Len(SweptPaths(d, RelevantRoots(d, requested_roots)))
        RECURSIVE sum(_)
        sum(k) == IF k = 0 THEN 0 ELSE n(inclusion_definitions[k]) + sum(k - 1)
    IN sum(Len(inclusion_definitions))

\* Whether some inclusion holds the mark get_pks leaves for a KeyError.
RaisedKeyError(inclusions) ==
    \E k \in DOMAIN inclusions : KeyError \in inclusions[k].pks

-----------------------------------------------------------------------------
(* Hoister: sort_key and hoist_inclusions (data_inclusion.py:198-213,      *)
(* 610-622).                                                               *)

\* What sort_key yields in place of raising ValueError.
ValueError == -2

\* sort_key of data_inclusion.py: the id of the item, else its pk.
sort_key(item) ==
    IF "id" \in DOMAIN item.v THEN item.v["id"].v
    ELSE IF "pk" \in DOMAIN item.v THEN item.v["pk"].v
    ELSE ValueError

\* A sort that leaves the list as it is.
AsGiven(items) == items

RECURSIVE Sorted(_)
\* sorted(items, key=sort_key): ascending, stable.
Sorted(items) ==
    IF items = <<>> THEN <<>>
    ELSE LET init == Sorted(SubSeq(items, 1, Len(items) - 1))
             x == items[Len(items)]
             before == {k \in DOMAIN init : sort_key(init[k]) <= sort_key(x)}
             at == Cardinality(before)
         IN SubSeq(init, 1, at) \o <<x>> \o SubSeq(init, at + 1, Len(init))

\* A hoist that joins the data of the inclusions of a model key as they
\* are, without Inclusion.merge.
HoistUnmerged(inclusions) ==
    LET keys == {model_key(inclusions[k].definition) : k \in DOMAIN inclusions}
        of(key) == LET has(incl) == model_key(incl.definition) = key
                   IN SelectSeq(inclusions, has)
    IN [key \in keys |->
          Sorted(Concat([k \in DOMAIN of(key) |-> InclusionData(of(key)[k])]))]

\* hoist_inclusions: model key -> the sorted data of the merged inclusion of
\* that key (of the last one, should the merge leave several).
hoist_inclusions(inclusions) ==
    LET merged == InclusionMerge(inclusions)
        keys == {model_key(merged[k].definition) : k \in DOMAIN merged}
        last(key) == CHOOSE k \in DOMAIN merged :
                        /\ model_key(merged[k].definition) = key
                        /\ \A j \in DOMAIN merged :
                              model_key(merged[j].definition) = key => j <= k
    IN [key \in keys |-> Sorted(InclusionData(merged[last(key)]))]

\* Whether sort_key raises on some item of the hoisted data.
RaisedValueError(hoisted) ==
    \E key \in DOMAIN hoisted :
        \E k \in DOMAIN hoisted[key] : sort_key(hoisted[key][k]) = ValueError

-----------------------------------------------------------------------------
(* Request-Path Walker: InclusionLoader and sort_key of core.py            *)
(* (core.py:18-166).                                                       *)

VARIABLES
    allowed_paths,  \* InclusionLoader.allowed_paths: [none, paths]
    complete_path,  \* InclusionLoader.nested_inclusions_use_complete_path
    seen,           \* InclusionLoader._seen
    generator,      \* the generator of line 31, as the walk it is to make
    entries,        \* the entries inclusions_dict has drawn from it
    result          \* the dict inclusions_dict builds and returns

loader == <<allowed_paths, complete_path, seen, generator, entries, result>>

\* allowed_paths = None, and allowed_paths = a collection of paths; a path
\* is the tuple of its field names.
AllPaths == [none |-> TRUE, paths |-> {}]
AllowedPaths(paths) == [none |-> FALSE, paths |-> paths]

\* A model instance, by the label of its model and its pk; NoObj for None.
Obj(model, pk) == [model |-> model, pk |-> pk]
NoObj == Obj("", None)

\* get_model_key: obj._meta.label
get_model_key(obj) == obj.model

\* The rows of a relation in the order the store returns them.
StoreOrder(ids) ==
    LET asc == SetToSeqAsc(ids)
    IN IF storeDesc THEN Reverse(asc) ELSE asc

\* What a walk yields: its entries in the order they are yielded, each
\* with _seen as it stands when the entry is yielded; _seen at the end of
\* the walk; the exception that ended it, "" if none.
Walked(yielded, seenAfter, exception) ==
    [entries |-> yielded, seen |-> seenAfter, raised |-> exception]

\* A check of _seen that never finds the entry.
HasNeverBeenSeen(obj, seenBefore) ==
    [hit |-> FALSE, seen |-> seenBefore \cup {<<obj.model, obj.pk>>}]

\* _has_been_seen (lines 142-147): whether the entry of obj is in _seen,
\* and _seen with the entry added.
_has_been_seen(obj, seenBefore) ==
    [hit |-> <<obj.model, obj.pk>> \in seenBefore,
     seen |-> seenBefore \cup {<<obj.model, obj.pk>>}]

\* _primary_key_related_field_inclusions, lines 114-129: the object the
\* field leads to, unless the field is null or the entry of its
\* PKOnlyObject, under the model of the inclusion serializer, is in _seen.
_primary_key_related_field_inclusions(f, instance, inclusion_serializer, seenBefore) ==
    LET pk == AttrOne(instance.model, instance.pk, f.name)
    IN IF pk = None THEN <<>>
       ELSE IF <<MetaModel(inclusion_serializer), pk>> \in seenBefore THEN <<>>
       ELSE <<Obj(f.model, pk)>>

\* _many_related_field_inclusions, line 137: field.get_attribute(instance).
_many_related_field_inclusions(f, instance) ==
    LET ids == StoreOrder(AttrMany(instance.model, instance.pk, f.name))
    IN [k \in DOMAIN ids |-> Obj(f.model, ids[k])]

\* A walk that goes on with every branch, whatever allowed_paths holds.
EveryPathAllowed(path) == TRUE

\* _some_related_field_inclusions, line 102: whether the path passes
\* allowed_paths.
IsAllowed(path) == allowed_paths.none \/ path \in allowed_paths.paths

\* _some_related_field_inclusions, lines 104-111: whether the field is of
\* none of the types the loader knows.
IsUnknownFieldType(f) == f.kind \notin {"related", "many"}

\* The walk is a nest of generators; it is followed here with the calls
\* that are still to be made kept on a stack, the next one on top.  A call
\* is a record: of _instance_inclusions (path, serializer, instance), of
\* _field_inclusions (path, field, instance, serializer), or the pass of
\* the loop of _field_inclusions for one related object (obj, serializer,
\* path); depth is the depth of the call in Python's stack, and new_path
\* the path of the field in whose frame the loop runs.
InstanceCall(path, serializer, instance, depth) ==
    [call |-> "instance", path |-> path, serializer |-> serializer,
     instance |-> instance, field |-> 0, depth |-> depth, new_path |-> <<>>]
FieldCall(path, serializer, instance, k, depth) ==
    [call |-> "field", path |-> path, serializer |-> serializer,
     instance |-> instance, field |-> k, depth |-> depth, new_path |-> <<>>]
ObjectPass(new_path, nested_path, inclusion_serializer, obj, depth) ==
    [call |-> "object", path |-> nested_path,
     serializer |-> inclusion_serializer, instance |-> obj, field |-> 0,
     depth |-> depth, new_path |-> new_path]

\* What a call leaves behind: the calls it makes, in their order; the
\* entries it yields itself; _seen; the exception it raises, "" if none.
Made(calls, yielded, seenAfter, exception) ==
    [calls |-> calls, entries |-> yielded, seen |-> seenAfter,
     raised |-> exception]

\* _list_inclusions (lines 56-61): _instance_inclusions for every instance.
_list_inclusions(path, serializer, instances, depth) ==
    [k \in DOMAIN instances |->
        InstanceCall(path, serializer, instances[k], depth)]

\* _instance_inclusions (lines 50-54): _field_inclusions for every field;
\* beyond MaxDepth levels the walk hits Python's recursion limit.
_instance_inclusions(c, seenBefore) ==
    IF c.depth > MaxDepth THEN Made(<<>>, <<>>, seenBefore, "RecursionError")
    ELSE Made([k \in DOMAIN Fields(c.serializer) |->
                  FieldCall(c.path, c.serializer, c.instance, k, c.depth)],
              <<>>, seenBefore, "")

\* _sub_serializer_inclusions (lines 85-99): a nested serializer, over the
\* object or the objects its source leads to.
_sub_serializer_inclusions(path, f, instance, depth) ==
    IF f.kind = "nestedmany"
    THEN LET ids == StoreOrder(AttrMany(instance.model, instance.pk, f.name))
         IN _list_inclusions(path, f.ser,
                             [k \in DOMAIN ids |-> Obj(MetaModel(f.ser), ids[k])],
                             depth + 1)
    ELSE LET pk == AttrOne(instance.model, instance.pk, f.name)
         IN <<InstanceCall(path, f.ser,
                           IF pk = None THEN NoObj ELSE Obj(MetaModel(f.ser), pk),
                           depth + 1)>>

\* _field_inclusions (lines 63-76) with _some_related_field_inclusions
\* (lines 101-111): up to the loop over the related objects.
_field_inclusions(c, seenBefore) ==
    LET f == Fields(c.serializer)[c.field]
        new_path == Append(c.path, f.name)
        inclusion_serializer ==
            IF f.name \in DOMAIN InclusionSerializers(c.serializer)
            THEN InclusionSerializers(c.serializer)[f.name] ELSE ""
        nested_path == IF complete_path THEN new_path ELSE c.path
        objs == IF f.kind = "related"
                THEN _primary_key_related_field_inclusions(
                         f, c.instance, inclusion_serializer, seenBefore)
                ELSE _many_related_field_inclusions(f, c.instance)
    IN IF c.instance = NoObj THEN Made(<<>>, <<>>, seenBefore, "")
       ELSE IF IsSerializerField(f)
       THEN Made(_sub_serializer_inclusions(new_path, f, c.instance, c.depth),
                 <<>>, seenBefore, "")
       ELSE IF inclusion_serializer = "" THEN Made(<<>>, <<>>, seenBefore, "")
       ELSE IF ~IsAllowed(new_path) THEN Made(<<>>, <<>>, seenBefore, "")
       ELSE IF IsUnknownFieldType(f) THEN Made(<<>>, <<>>, seenBefore, "Error")
       ELSE Made([k \in DOMAIN objs |->
                     ObjectPass(new_path, nested_path, inclusion_serializer,
                                objs[k], c.depth)],
                 <<>>, seenBefore, "")

\* A pass that yields the object and walks it, seen before or not.
ExpandsSeen(c, seenBefore) ==
    LET looked == _has_been_seen(c.instance, seenBefore)
    IN Made(<<InstanceCall(c.path, c.serializer, c.instance, c.depth + 1)>>,
            <<[obj |-> c.instance, serializer |-> c.serializer,
               path |-> c.new_path, seen |-> looked.seen]>>,
            looked.seen, "")

\* _field_inclusions, lines 76-83: the pass of the loop for one related
\* object.  The objects come out of a generator, so that _seen is looked
\* up for an object only once the walk below the objects before it is
\* over; an object not seen before is yielded with its inclusion
\* serializer, and walked in its turn.  The entry is kept with the path of
\* the field that yielded it.
RelatedObject(c, seenBefore) ==
    LET looked == _has_been_seen(c.instance, seenBefore)
    IN IF looked.hit THEN Made(<<>>, <<>>, looked.seen, "")
       ELSE Made(<<InstanceCall(c.path, c.serializer, c.instance, c.depth + 1)>>,
                 <<[obj |-> c.instance, serializer |-> c.serializer,
                    path |-> c.new_path, seen |-> looked.seen]>>,
                 looked.seen, "")

RECURSIVE Walk(_, _, _)
\* The walk from a stack of calls on: the entries yielded, _seen at the
\* end, the exception that ended the walk.
Walk(calls, seenBefore, yielded) ==
    IF calls = <<>> THEN Walked(yielded, seenBefore, "")
    ELSE LET c == Head(calls)
             made == CASE c.call = "instance" -> _instance_inclusions(c, seenBefore)
                       [] c.call = "field" -> _field_inclusions(c, seenBefore)
                       [] c.call = "object" -> RelatedObject(c, seenBefore)
         IN IF made.raised # ""
            THEN Walked(yielded \o made.entries, made.seen, made.raised)
            ELSE Walk(made.calls \o Tail(calls), made.seen,
                      yielded \o made.entries)

\* sort_key of core.py (lines 150-166): the id of the item, else its pk,
\* else its url.
core_sort_key(item) ==
    IF "id" \in DOMAIN item.v THEN item.v["id"].v
    ELSE IF "pk" \in DOMAIN item.v THEN item.v["pk"].v
    ELSE IF "url" \in DOMAIN item.v THEN item.v["url"].v
    ELSE ValueError

RECURSIVE SortedByKeys(_, _)
\* list.sort / sorted: items in ascending order of their keys, stable.
SortedByKeys(items, keys) ==
    IF items = <<>> THEN <<>>
    ELSE LET n == Len(items)
             init == SortedByKeys(SubSeq(items, 1, n - 1), SubSeq(keys, 1, n - 1))
             initKeys == SortedByKeys(SubSeq(keys, 1, n - 1), SubSeq(keys, 1, n - 1))
             at == Cardinality({k \in DOMAIN initKeys : initKeys[k] <= keys[n]})
         IN SubSeq(init, 1, at) \o <<items[n]>> \o SubSeq(init, at + 1, n - 1)

-----------------------------------------------------------------------------
(* The call of InclusionJSONRenderer.render (renderer.py:130-211).         *)

VARIABLES
    root,        \* the serializer class that rendered the payload
    shape,       \* the payload handed to render, see Data
    response,    \* renderer_context["response"]: [present, status_code]
    view,        \* renderer_context["view"], see Views
    include,     \* the include query parameter: [given, paths]
    given,       \* the definitions of a call of merge_inclusion_definitions
    pc,          \* where the call stands
    inclusion_definitions,
    inclusions,  \* extract_inclusions' list of Inclusion objects
    requested_roots,
    resolved,    \* extract_inclusions' dict model key -> rendered data
    i,           \* the round counter of the while loop
    pos,         \* the position of the for loop in inclusions
    hoisted,     \* what extract_relations returns
    body,        \* the value handed to JSONRenderer.render
    raised,      \* the exception that ended the call, "" if none
    walks,       \* calls of determine_inclusion_definitions by the renderer
    merges,      \* calls of merge_inclusion_definitions and Inclusion.merge
    extractions, \* calls of get_pks by extract_inclusions
    fetches      \* evaluations of Inclusion.data: fetches from the store

inputs == <<db, storeDesc, root, shape, response, view, include, given>>
work == <<inclusion_definitions, inclusions, requested_roots, resolved, i, pos,
          hoisted, body, raised>>
counters == <<walks, merges, extractions, fetches>>
vars == <<inputs, pc, work, counters, loader>>

\* The rendered rows: Serializer(instance).data is a ReturnDict and
\* Serializer(instances, many=True).data a ReturnList, both carrying their
\* serializer.
ReturnDict(s, id) ==
    [t |-> "ReturnDict", v |-> ToRepresentation(s, id).v,
     serializer |-> [cls |-> s, many |-> FALSE]]
ReturnList(s, ids) ==
    [t |-> "ReturnList", v |-> SerializeMany(s, ids),
     serializer |-> [cls |-> s, many |-> TRUE]]

IntValue(n) == [t |-> "int", v |-> n]

\* The payload handed to render: a detail response, a list response, a page
\* of a paginated list response (the pagination wrapper of rest_framework),
\* a response that no serializer produced, and no content at all.
Data ==
    CASE shape = "detail" -> ReturnDict(root, 1)
      [] shape = "list" -> ReturnList(root, SetToSeqAsc(Ids))
      [] shape = "page" ->
           DictValue(("count" :> IntValue(MaxId)) @@ ("next" :> Null)
                     @@ ("previous" :> Null)
                     @@ ("results" :> ReturnList(root, SetToSeqAsc(Ids))))
      [] shape = "plain" -> DictValue(("arbitrary" :> StrValue("content")))
      [] shape = "empty" -> Null

Shapes == {"detail", "list", "page", "plain", "empty"}

\* bool(data)
Truthy(x) ==
    CASE x.t = "null" -> FALSE
      [] IsList(x) -> x.v # <<>>
      [] IsDict(x) -> DOMAIN x.v # {}
      [] OTHER -> TRUE

\* Lines 172-175: the primary payload.
SerializerData(data) ==
    IF Truthy(data) /\ IsDict(data) /\ "results" \in DOMAIN data.v
    THEN data.v["results"]
    ELSE data

\* Line 177: getattr(serializer_data, "serializer", None), with cls = ""
\* for None.
SerializerOf(serializer_data) ==
    IF serializer_data.t \in {"ReturnDict", "ReturnList"}
    THEN serializer_data.serializer
    ELSE [cls |-> "", many |-> FALSE]

\* The views: no view in the context; a view without an action attribute; a
\* viewset whose action is None; a viewset in a standard action (list,
\* retrieve, create, ...); a viewset in an action declared with @action.
Views == {"none", "apiview", "noaction", "standard", "custom"}

\* Whether the serializer itself has inclusion serializers.
HasOwnInclusionSerializers(serializer) ==
    DOMAIN InclusionSerializers(serializer) # {}

RECURSIVE has_inclusion_serializers(_)
\* renderer.py:18-34
has_inclusion_serializers(serializer) ==
    \/ DOMAIN InclusionSerializers(serializer) # {}
    \/ \E k \in DOMAIN Fields(serializer) :
          /\ IsSerializerField(Fields(serializer)[k])
          /\ has_inclusion_serializers(Fields(serializer)[k].ser)

\* renderer.py:37-54; only a decorated action carries the attributes.
should_skip_inclusions(action, serializer) ==
    IF action # "custom" THEN FALSE
    ELSE ~has_inclusion_serializers(serializer)

\* An error response taken to begin above 400.
IsErrorAbove(resp) == resp.present /\ resp.status_code > 400

\* Line 169: an error response.
IsError(resp) == resp.present /\ resp.status_code >= 400

\* Lines 166-194: whether render hands the data on as it is.
PassesThrough(data, resp, v) ==
    \/ IsError(resp)
    \/ SerializerOf(SerializerData(data)).cls = ""
    \/ v = "noaction"
    \/ /\ v \in {"standard", "custom"}
       /\ should_skip_inclusions(v, SerializerOf(SerializerData(data)).cls)

\* Line 137: to_include.
ToInclude(inc) == IF inc.given /\ inc.paths # <<>> THEN inc.paths ELSE <<>>

\* Lines 139-140: the serializer data as the list extract_inclusions walks.
AsList(serializer_data) ==
    IF SerializerOf(serializer_data).many THEN serializer_data
    ELSE ListValue(<<serializer_data>>)

\* render_data without the keys of the wrapper.
RenderDataWithoutMeta(data, serializer_data, incl) ==
    DictValue(("data" :> serializer_data)
              @@ ("inclusions" :>
                    DictValue([key \in DOMAIN incl |-> ListValue(incl[key])])))

\* Lines 199-209: render_data.
RenderData(data, serializer_data, incl) ==
    LET base == ("data" :> serializer_data)
                @@ ("inclusions" :>
                      DictValue([key \in DOMAIN incl |-> ListValue(incl[key])]))
        meta == IF data.t = "dict"
                THEN [key \in DOMAIN data.v \ {"results"} |-> data.v[key]]
                ELSE EmptyDict
    IN DictValue(meta @@ base)

-----------------------------------------------------------------------------
(* The calls considered.                                                   *)

RECURSIVE SetToSeq(_)
\* a finite set as a sequence of its elements, in some fixed order
SetToSeq(S) ==
    IF S = {} THEN <<>>
    ELSE LET x == CHOOSE y \in S : TRUE IN <<x>> \o SetToSeq(S \ {x})

\* The names of the relational and nested fields of a serializer class.
LinkNames(s) ==
    {Fields(s)[k].name :
        k \in {j \in DOMAIN Fields(s) :
                 IsRelational(Fields(s)[j]) \/ IsSerializerField(Fields(s)[j])}}

\* The dotted paths of one and of two segments that lead along the fields of
\* serializer s: into a nested serializer, or into the inclusion serializer
\* of a relational field.
SinglePaths(s) == {<<n>> : n \in LinkNames(s)}
DoublePaths(s) ==
    UNION {LET f == Fields(s)[k]
               via == IF IsSerializerField(f) THEN f.ser
                      ELSE get_inclusion_serializer_class(s, f.name)
           IN IF via = "" THEN {}
              ELSE {<<f.name, n>> : n \in LinkNames(via)} :
           k \in DOMAIN Fields(s)}

\* The values of the include parameter considered for serializer s: one
\* path, all the one-segment paths together, the wildcard, a path that
\* names no field.
IncludeLists(s) ==
    {<<p>> : p \in SinglePaths(s) \cup DoublePaths(s)}
    \cup (IF Cardinality(SinglePaths(s)) > 1
          THEN {SetToSeq(SinglePaths(s))} ELSE {})
    \cup {Wildcard, <<<<"nonexistent">>>>}

Given(paths) == [given |-> TRUE, paths |-> paths]
\* ?include= with an empty value, and no include parameter (or no request).
EmptyInclude == [given |-> TRUE, paths |-> <<>>]
AbsentInclude == [given |-> FALSE, paths |-> <<>>]

Response(status_code) == [present |-> TRUE, status_code |-> status_code]
NoResponse == [present |-> FALSE, status_code |-> 0]
Statuses == {200, 201, 399, 400, 404}

\* The store in which every relation of row i leads to row i.
OwnStore == [a \in AllAttrs |-> "own"]

\* The response and the view of a call: every response under a standard
\* action, and every view under a 200 response.
Contexts ==
    {<<Response(c), "standard">> : c \in Statuses}
    \cup {<<NoResponse, "standard">>}
    \cup {<<Response(200), v>> : v \in Views}

Unset == [t |-> "unset", v |-> 0]

\* A successful detail or list response of a standard action, over every
\* store.
InitOverStores ==
    /\ root \in RootSerializers
    /\ db \in Stores(root)
    /\ storeDesc = FALSE
    /\ shape \in {"detail", "list"}
    /\ response = Response(200)
    /\ view = "standard"
    /\ include \in {Given(l) : l \in IncludeLists(root)}

\* Every payload, response and view, with and without an include parameter,
\* over one store in both orders.
InitOverRequests ==
    /\ root \in RootSerializers
    /\ db = OwnStore
    /\ storeDesc \in BOOLEAN
    /\ shape \in Shapes
    /\ \E c \in Contexts : response = c[1] /\ view = c[2]
    /\ include \in {Given(l) : l \in IncludeLists(root)}
                   \cup {EmptyInclude, AbsentInclude}

\* The stores in which every relation is laid out by the same pattern.
UniformStores == {[a \in AllAttrs |-> p] : p \in Patterns}

\* The field paths allowed_paths is drawn from for serializer s: the names
\* of the relational, nested and includable fields of the serializers s
\* leads to, and the two-segment paths of s.
LoaderPaths(s) ==
    DoublePaths(s)
    \cup UNION {{<<n>> : n \in LinkNames(t) \cup DOMAIN InclusionSerializers(t)} :
                t \in ReachableFrom({s})}

\* The values of allowed_paths considered: None, no path, one path, two.
AllowLists(s) ==
    {AllPaths, AllowedPaths({})}
    \cup {AllowedPaths({p, q}) : p, q \in LoaderPaths(s)}

\* No loader at work: the call is one of render.
NoLoader ==
    /\ allowed_paths = AllPaths
    /\ complete_path = FALSE

\* InclusionLoader(allowed_paths).inclusions_dict(serializer) over a
\* serializer of one instance, a serializer with many=True, and a value
\* that is no serializer; with the loader of the library
\* and one that uses the complete path for nested inclusions
\* (testapp/loaders.py).
InitOverLoaders ==
    /\ root \in RootSerializers \cup {"ChildNestedSerializer"}
    /\ db \in UniformStores
    /\ storeDesc \in BOOLEAN
    /\ shape \in {"detail", "list", "plain"}
    /\ response = NoResponse
    /\ view = "none"
    /\ include = AbsentInclude
    /\ allowed_paths \in AllowLists(root)
    /\ complete_path \in BOOLEAN
    /\ pc = "inclusions_dict"
    /\ given = <<>>

\* The values of the include parameter with a path that names no field of
\* serializer s: from its first segment on or after a first segment that
\* names a field, alone or next to a one-segment path that names a field.
UnknownIncludeLists(s) ==
    LET unknown == {<<"nonexistent">>}
                   \cup {<<n, "nonexistent">> : n \in LinkNames(s)}
    IN {<<u>> : u \in unknown}
       \cup {<<p, u>> : p \in SinglePaths(s), u \in unknown}

\* A successful detail or list response of a standard action, with an
\* include parameter that holds a path that names no field.
InitOverUnknownPaths ==
    /\ root \in RootSerializers
    /\ db \in UniformStores
    /\ storeDesc = FALSE
    /\ shape \in {"detail", "list"}
    /\ response = Response(200)
    /\ view = "standard"
    /\ include \in {Given(l) : l \in UnknownIncludeLists(root)}

RECURSIVE Arrangements(_, _)
\* The lists of at most n distinct elements of S.
Arrangements(S, n) ==
    IF n = 0 THEN {<<>>}
    ELSE {<<>>} \cup UNION {{<<x>> \o rest : rest \in Arrangements(S \ {x}, n - 1)} :
                            x \in S}

\* The field named n as serializer class s declares it.
DeclaredField(s, n) ==
    Fields(s)[CHOOSE k \in DOMAIN Fields(s) : Fields(s)[k].name = n]

\* A definition as determine_inclusion_definitions builds it for field n of
\* serializer class s (lines 307-314).
DefinitionOf(s, n, data_path, inclusion_path) ==
    InclusionDefinition(s, DeclaredField(s, n), InclusionSerializers(s)[n],
                        data_path, inclusion_path)

\* The same with the field declared read_only=True: its queryset is None.
ReadOnlyDefinitionOf(s, n, data_path) ==
    LET d == DefinitionOf(s, n, data_path, NoPath)
    IN [d EXCEPT !.field.ro = TRUE]

\* Definitions with pairwise distinct data paths: three over the tags with
\* TagSerializer, one over the tags with TagLinkSerializer, one over
\* another model, one that waits for the data of testapp.D, and one over
\* the tags with TagSerializer through a read-only field.
GivenPool ==
    {DefinitionOf("ChildSerializer", "tags", <<"tags">>, NoPath),
     DefinitionOf("ParentSerializer", "tags", <<"parent", "tags">>, NoPath),
     DefinitionOf("DSerializer", "tags1", <<"tags1">>, NoPath),
     DefinitionOf("ParentLinkSerializer", "tags", <<"link", "tags">>, NoPath),
     DefinitionOf("ChildSerializer", "childprops", <<"childprops">>, NoPath),
     DefinitionOf("DSerializer", "tags2", <<"d", "tags2">>,
                  [model_key |-> "testapp.D", path |-> <<"tags2">>]),
     ReadOnlyDefinitionOf("DSerializer", "tags2", <<"tags2">>)}

\* A call of merge_inclusion_definitions on its own, over the lists of
\* distinct definitions of the pool in every order.
InitOverDefinitions ==
    /\ root = "TagSerializer"
    /\ db = OwnStore
    /\ storeDesc = FALSE
    /\ shape = "plain"
    /\ response = NoResponse
    /\ view = "none"
    /\ include = AbsentInclude
    /\ NoLoader
    /\ pc = "merge"
    /\ given \in Arrangements(GivenPool, MaxGiven)

\* A successful detail or list response of a standard action rendered by
\* a serializer with two branches.
InitOverBranches ==
    /\ root \in {"SecondLevelLinkSerializer", "SecondLevelNestedSerializer",
                 "MainObjectDiamondSerializer", "ChildNestedSerializer"}
    /\ db \in UniformStores
    /\ storeDesc = FALSE
    /\ shape \in {"detail", "list"}
    /\ response = Response(200)
    /\ view = "standard"
    /\ include \in {Given(l) : l \in IncludeLists(root)}

Init ==
    /\ \/ /\ \/ InitOverStores
             \/ InitOverRequests
             \/ InitOverUnknownPaths
             \/ InitOverBranches
          /\ pc = "render"
          /\ NoLoader
          /\ given = <<>>
       \/ InitOverLoaders
       \/ InitOverDefinitions
    /\ seen = {}
    /\ generator = Walked(<<>>, {}, "")
    /\ entries = <<>>
    /\ result = EmptyDict
    /\ inclusion_definitions = <<>>
    /\ inclusions = <<>>
    /\ requested_roots = {}
    /\ resolved = EmptyDict
    /\ i = 0
    /\ pos = 0
    /\ hoisted = EmptyDict
    /\ body = Unset
    /\ raised = ""
    /\ walks = 0
    /\ merges = 0
    /\ extractions = 0
    /\ fetches = 0

-----------------------------------------------------------------------------
(* The steps of the call.                                                  *)

\* The serializer class of the primary payload (renderer.py:177).
Serializer == SerializerOf(SerializerData(Data)).cls

\* render, lines 166-197: hand the data on as it is, or go on to
\* extract_relations.
Render ==
    /\ pc = "render"
    /\ IF PassesThrough(Data, response, view)
       THEN body' = Data /\ pc' = "done"
       ELSE body' = body /\ pc' = "extract_relations"
    /\ UNCHANGED <<loader, inputs, inclusion_definitions, inclusions, requested_roots,
                   resolved, i, pos, hoisted, raised, counters>>

\* extract_relations, line 144: the walk of the schema graph.
DetermineDefinitions ==
    /\ pc = "extract_relations"
    /\ LET w == determine_inclusion_definitions(Serializer, <<>>, NoPath,
                                                NoReferences, 1)
       IN IF w.overflow
          THEN /\ raised' = "RecursionError"
               /\ pc' = "raised"
               /\ UNCHANGED inclusion_definitions
          ELSE /\ inclusion_definitions' = w.defs
               /\ pc' = "merge_definitions"
               /\ UNCHANGED raised
    /\ walks' = walks + 1
    /\ UNCHANGED <<loader, inputs, inclusions, requested_roots, resolved, i, pos,
                   hoisted, body, merges, extractions, fetches>>

\* extract_relations, line 145.
MergeDefinitions ==
    /\ pc = "merge_definitions"
    /\ inclusion_definitions' = merge_inclusion_definitions(inclusion_definitions)
    /\ merges' = merges + 1
    /\ pc' = "extract_inclusions"
    /\ UNCHANGED <<loader, inputs, inclusions, requested_roots, resolved, i, pos,
                   hoisted, body, raised, walks, extractions, fetches>>

\* extract_inclusions, lines 479-527: the early return, or the first sweep.
ExtractInclusions ==
    /\ pc = "extract_inclusions"
    /\ IF ToInclude(include) = <<>>
       THEN /\ pc' = "hoist"
            /\ UNCHANGED <<inclusions, requested_roots, extractions, raised>>
       ELSE LET rr == RequestedRoots(Serializer, ToInclude(include))
                swept == FirstSweep(inclusion_definitions, rr,
                                    AsList(SerializerData(Data)))
            IN /\ requested_roots' = rr
               /\ inclusions' = swept
               /\ extractions' = extractions
                                 + FirstSweepCalls(inclusion_definitions, rr)
               /\ IF RaisedKeyError(swept)
                  THEN raised' = "KeyError" /\ pc' = "raised"
                  ELSE raised' = raised /\ pc' = "merge_inclusions"
    /\ UNCHANGED <<loader, inputs, inclusion_definitions, resolved, i, pos, hoisted,
                   body, walks, merges, fetches>>

IsResolved(inclusion) == inclusion.resolved

\* extract_inclusions, lines 530-538: Inclusion.merge, the data of the
\* resolved inclusions, i = 0.
MergeInclusions ==
    /\ pc = "merge_inclusions"
    /\ IF MergeAssertionFails(inclusions)
       THEN /\ raised' = "AssertionError"
            /\ pc' = "raised"
            /\ UNCHANGED <<inclusions, resolved, fetches>>
       ELSE LET merged == InclusionMerge(inclusions)
                done == {k \in DOMAIN merged : merged[k].resolved}
                keys == {model_key(merged[k].definition) : k \in done}
                last(key) == CHOOSE k \in done :
                                /\ model_key(merged[k].definition) = key
                                /\ \A j \in done :
                                      model_key(merged[j].definition) = key
                                      => j <= k
            IN /\ inclusions' = merged
               /\ resolved' = [key \in keys |-> InclusionData(merged[last(key)])]
               /\ fetches' = fetches + FetchesOf(SelectSeq(merged, IsResolved))
               /\ pc' = "while"
               /\ UNCHANGED raised
    /\ merges' = merges + 1
    /\ i' = 0
    /\ UNCHANGED <<loader, inputs, inclusion_definitions, requested_roots, pos,
                   hoisted, body, walks, extractions>>

\* extract_inclusions, lines 539-543: the test of the while loop, the
\* round counter and its assertion.
WhileTest ==
    /\ pc = "while"
    /\ IF \A k \in DOMAIN inclusions : inclusions[k].resolved
       THEN pc' = "hoist" /\ UNCHANGED <<i, pos, raised>>
       ELSE /\ i' = i + 1
            /\ IF i + 1 < MaxRounds
               THEN pc' = "for" /\ pos' = 1 /\ raised' = raised
               ELSE pc' = "raised" /\ pos' = pos /\ raised' = "AssertionError"
    /\ UNCHANGED <<loader, inputs, inclusion_definitions, inclusions, requested_roots,
                   resolved, hoisted, body, counters>>

\* A loop that passes over no inclusion.
VisitsEvery(inclusion) == FALSE

\* extract_inclusions, lines 545-546: a resolved inclusion is passed over.
SkipsResolved(inclusion) == inclusion.resolved

\* extract_inclusions, lines 544-565: one pass of the body of the for loop.
ForVisit ==
    /\ pc = "for"
    /\ LET inclusion == inclusions[pos]
           source == inclusion.definition.inclusion_path.model_key
           data_path == inclusion.definition.inclusion_path.path
           own == model_key(inclusion.definition)
       IN IF SkipsResolved(inclusion)
          THEN UNCHANGED <<inclusions, resolved, raised, extractions, fetches>>
          ELSE IF source \notin DOMAIN resolved
          THEN /\ inclusions' =
                     IF RelevantRoots(inclusion.definition, requested_roots) = {}
                     THEN [inclusions EXCEPT ![pos] = resolve(inclusion, <<>>)]
                     ELSE inclusions
               /\ UNCHANGED <<resolved, raised, extractions, fetches>>
          ELSE LET pks == get_pks(ListValue(resolved[source]), data_path)
                   now == resolve(inclusion, pks)
                   before == IF own \in DOMAIN resolved
                             THEN resolved[own] ELSE <<>>
               IN /\ extractions' = extractions + 1
                  /\ inclusions' = [inclusions EXCEPT ![pos] = now]
                  /\ IF KeyError \in Range(pks)
                     THEN /\ raised' = "KeyError"
                          /\ UNCHANGED <<resolved, fetches>>
                     ELSE /\ resolved' = (own :> (before \o InclusionData(now)))
                                         @@ resolved
                          /\ fetches' = fetches + DataFetches(now)
                          /\ UNCHANGED raised
    /\ pc' = IF raised' # "" THEN "raised"
             ELSE IF pos = Len(inclusions) THEN "while" ELSE "for"
    /\ pos' = IF pos = Len(inclusions) THEN pos ELSE pos + 1
    /\ UNCHANGED <<loader, inputs, inclusion_definitions, requested_roots, i, hoisted,
                   body, walks, merges>>

\* extract_relations, line 152: hoist_inclusions.
HoistInclusions ==
    /\ pc = "hoist"
    /\ LET h == hoist_inclusions(inclusions)
       IN /\ hoisted' = h
          /\ IF RaisedValueError(h)
             THEN raised' = "ValueError" /\ pc' = "raised"
             ELSE raised' = raised /\ pc' = "wrap"
    /\ merges' = merges + 1
    /\ fetches' = fetches + FetchesOf(InclusionMerge(inclusions))
    /\ UNCHANGED <<loader, inputs, inclusion_definitions, inclusions, requested_roots,
                   resolved, i, pos, body, walks, extractions>>

\* render, lines 199-211: the data and the inclusions under their keys.
Wrap ==
    /\ pc = "wrap"
    /\ body' = RenderData(Data, SerializerData(Data), hoisted)
    /\ pc' = "done"
    /\ UNCHANGED <<loader, inputs, inclusion_definitions, inclusions, requested_roots,
                   resolved, i, pos, hoisted, raised, counters>>

\* inclusions_dict, line 31: _inclusions((), serializer,
\* serializer.instance) (lines 42-48), from the start of the walk.
_inclusions ==
    CASE shape = "list" ->
           LET ids == StoreOrder(Ids)
           IN Walk(_list_inclusions(<<>>, root,
                                    [k \in DOMAIN ids |->
                                        Obj(MetaModel(root), ids[k])], 1),
                   {}, <<>>)
      [] shape = "detail" ->
           Walk(<<InstanceCall(<<>>, root, Obj(MetaModel(root), 1), 1)>>,
                {}, <<>>)
      [] OTHER -> Walked(<<>>, {}, "Error")

\* inclusions_dict, line 31: entries = self._inclusions(...).
InclusionsDict ==
    /\ pc = "inclusions_dict"
    /\ generator' = _inclusions
    /\ pc' = "entries"
    /\ UNCHANGED <<inputs, work, counters, allowed_paths, complete_path, seen,
                   entries, result>>

\* inclusions_dict, lines 32-37: one pass of the for loop over the entries.
LoaderEntry ==
    /\ pc = "entries"
    /\ Len(entries) < Len(generator.entries)
    /\ LET entry == generator.entries[Len(entries) + 1]
           key == get_model_key(entry.obj)
           data == ToRepresentation(entry.serializer, entry.obj.pk)
           sofar == IF key \in DOMAIN result THEN result[key] ELSE <<>>
       IN /\ entries' = Append(entries, entry)
          /\ seen' = entry.seen
          /\ result' = (key :> Append(sofar, data)) @@ result
    /\ UNCHANGED <<inputs, pc, work, counters, allowed_paths, complete_path,
                   generator>>

\* An exception out of the walk ends inclusions_dict.
LoaderRaise ==
    /\ pc = "entries"
    /\ Len(entries) = Len(generator.entries)
    /\ generator.raised # ""
    /\ raised' = generator.raised
    /\ seen' = generator.seen
    /\ pc' = "failed"
    /\ UNCHANGED <<inputs, inclusion_definitions, inclusions, requested_roots,
                   resolved, i, pos, hoisted, body, counters, allowed_paths,
                   complete_path, generator, entries, result>>

\* inclusions_dict, lines 38-40: the lists are sorted and returned.
LoaderSort ==
    /\ pc = "entries"
    /\ Len(entries) = Len(generator.entries)
    /\ generator.raised = ""
    /\ LET keys(key) == [k \in DOMAIN result[key] |-> core_sort_key(result[key][k])]
       IN /\ result' = [key \in DOMAIN result |->
                           SortedByKeys(result[key], keys(key))]
          /\ IF \E key \in DOMAIN result : ValueError \in Range(keys(key))
             THEN raised' = "ValueError" /\ pc' = "failed"
             ELSE raised' = raised /\ pc' = "returned"
    /\ seen' = generator.seen
    /\ UNCHANGED <<inputs, inclusion_definitions, inclusions, requested_roots,
                   resolved, i, pos, hoisted, body, counters, allowed_paths,
                   complete_path, generator, entries>>

\* A merge that works on the list it was handed: the list holds the merged
\* definitions afterwards.
MergedInPlace(definitions) == merge_inclusion_definitions(definitions)

\* merge_inclusion_definitions, lines 339-362, as the caller's list is left
\* by it: the loop removes from inputs, the copy of the list, sum() joins
\* the data_paths into a new list, and the merged definitions are new
\* objects, so the list holds the definitions it held, as they were.
DefinitionsAfterMerge(definitions) == definitions

\* merge_inclusion_definitions called on the given definitions.
MergeGiven ==
    /\ pc = "merge"
    /\ inclusion_definitions' = merge_inclusion_definitions(given)
    /\ given' = DefinitionsAfterMerge(given)
    /\ pc' = "merged"
    /\ UNCHANGED <<db, storeDesc, root, shape, response, view, include>>
    /\ UNCHANGED <<loader, inclusions, requested_roots, resolved, i, pos,
                   hoisted, body, raised, counters>>

\* merge_inclusion_definitions called on what it returned.
MergeAgain ==
    /\ pc = "merged"
    /\ inclusion_definitions' = merge_inclusion_definitions(inclusion_definitions)
    /\ pc' = "merged_again"
    /\ UNCHANGED <<loader, inputs, inclusions, requested_roots, resolved, i, pos,
                   hoisted, body, raised, counters>>

Next ==
    \/ MergeGiven
    \/ MergeAgain
    \/ InclusionsDict
    \/ LoaderEntry
    \/ LoaderRaise
    \/ LoaderSort
    \/ Render
    \/ DetermineDefinitions
    \/ MergeDefinitions
    \/ ExtractInclusions
    \/ MergeInclusions
    \/ WhileTest
    \/ ForVisit
    \/ HoistInclusions
    \/ Wrap

Spec == Init /\ [][Next]_vars

-----------------------------------------------------------------------------
(* What the claims speak of.                                               *)

\* The rows of the root model the payload shows.
PayloadRows ==
    CASE shape = "detail" -> {1}
      [] shape \in {"list", "page"} -> Ids
      [] OTHER -> {}

\* The payload came out of a serializer.
ProducedBySerializer == shape \in {"detail", "list", "page"}

\* The value of results of a pagination wrapper, else the payload itself.
PrimaryPayload == IF shape = "page" THEN Data.v["results"] ELSE Data

StatusBelow400 == response.present /\ response.status_code < 400
StatusFrom400 == response.present /\ response.status_code >= 400

\* A custom action whose serializer declares no inclusions anywhere.
SkippedCustomAction == view = "custom" /\ ~has_inclusion_serializers(root)

\* The body has the data and the inclusions under their keys.
IsWrapped ==
    /\ body.t = "dict"
    /\ {"data", "inclusions"} \subseteq DOMAIN body.v

\* The inclusions mapping of the body: model key -> list of rendered rows.
FinalInclusions ==
    [key \in DOMAIN body.v["inclusions"].v |-> body.v["inclusions"].v[key].v]

\* The ids of a list of rendered rows.
IdsOf(items) == {items[k].v["id"].v : k \in DOMAIN items}
IdSeq(items) == [k \in DOMAIN items |-> items[k].v["id"].v]

\* The body as C1 describes it.
WrappedAsDescribed ==
    /\ IsWrapped
    /\ body.v["data"] = PrimaryPayload
    /\ body.v["inclusions"] =
          DictValue([key \in DOMAIN hoisted |-> ListValue(hoisted[key])])
    /\ "results" \notin DOMAIN body.v
    /\ shape = "page" =>
          \A key \in DOMAIN Data.v \ {"results"} :
              key \in DOMAIN body.v /\ body.v[key] = Data.v[key]

\* C1, as stated: every response with a status below 400 whose payload a
\* serializer produced, and that is not a skipped custom action, is rendered
\* with the primary payload under data, the hoisted mapping under inclusions,
\* the other keys of a pagination wrapper kept and results dropped.
C1_Original ==
    (pc = "done" /\ StatusBelow400 /\ ProducedBySerializer
       /\ ~SkippedCustomAction)
    => WrappedAsDescribed

\* C1, amended: the same, for the views that are not a viewset whose action
\* is unset; for those render hands the payload on as it is.
C1_WrapsUnlessNoAction ==
    (pc = "done" /\ StatusBelow400 /\ ProducedBySerializer
       /\ ~SkippedCustomAction /\ view # "noaction")
    => WrappedAsDescribed

C1_Witness ==
    /\ pc = "done"
    /\ response = Response(200)
    /\ view = "standard"
    /\ shape = "page"
    /\ WrappedAsDescribed
    /\ body.v["count"] = IntValue(MaxId)
    /\ DOMAIN hoisted # {}

\* C2: a response with a status of 400 or more is handed on unmodified: the
\* call ends after its first step with the payload as the body, and walks
\* no schema, extracts no identifier and fetches nothing, whatever the
\* include parameter says.
C2_ErrorsPassThrough ==
    StatusFrom400 =>
        /\ pc \in {"render", "done"}
        /\ walks = 0 /\ extractions = 0 /\ fetches = 0
        /\ pc = "done" => body = Data

C2_Witness ==
    /\ pc = "done"
    /\ response = Response(400)
    /\ shape = "list"
    /\ include = Given(Wildcard)
    /\ body = Data
    /\ ~IsWrapped

\* C3: each list of the final inclusions mapping holds each id at most
\* once.
C3_NoDuplicateIds ==
    (pc = "done" /\ IsWrapped) =>
        \A key \in DOMAIN FinalInclusions :
            NoDuplicates(IdSeq(FinalInclusions[key]))

\* Two fields of D lead to the same tags, and all the payload items to the
\* same D.
C3_Witness ==
    /\ pc = "done"
    /\ root = "ESerializer"
    /\ shape = "list"
    /\ include = Given(Wildcard)
    /\ db[<<"testapp.E", "d">>] = "same"
    /\ db[<<"testapp.D", "tags1">>] = "next"
    /\ db[<<"testapp.D", "tags2">>] = "next"
    /\ IsWrapped
    /\ IdSeq(FinalInclusions["testapp.Tag"]) = <<1, 2>>
    /\ IdSeq(FinalInclusions["testapp.D"]) = <<1>>

\* C4, as stated: the inclusions mapping has a key for a model only if
\* at least one row of that model is included; the code keeps the key of
\* every merged inclusion, with an empty list when no row is referenced.
C4_NoEmptyLists ==
    (pc = "done" /\ IsWrapped) =>
        \A key \in DOMAIN FinalInclusions : FinalInclusions[key] # <<>>

\* The field of serializer class s named n.
FieldNamed(s, n) ==
    Fields(s)[CHOOSE k \in DOMAIN Fields(s) : Fields(s)[k].name = n]

\* The rows the data store holds for field f of row r of the model of s.
StoredRefs(s, r, f) ==
    IF f.kind \in {"many", "nestedmany"}
    THEN AttrMany(MetaModel(s), r, f.name)
    ELSE {AttrOne(MetaModel(s), r, f.name)} \ {None}

\* The serializer class a field of s leads into: the nested serializer, or
\* the inclusion serializer of a relational field ("" if it has none).
Via(s, f) ==
    IF IsSerializerField(f) THEN f.ser
    ELSE get_inclusion_serializer_class(s, f.name)

RECURSIVE RowsAt(_, _, _)
\* The rows the data store holds at a dotted path of field names, followed
\* from the given rows of the model of serializer class s.
RowsAt(s, rows, path) ==
    LET f == FieldNamed(s, Head(path))
        targets == UNION {StoredRefs(s, r, f) : r \in rows}
    IN IF Len(path) = 1 THEN targets
       ELSE RowsAt(Via(s, f), targets, Tail(path))

\* The ids the final inclusions hold for a model key.
IncludedIds(key) ==
    IF key \in DOMAIN FinalInclusions THEN IdsOf(FinalInclusions[key]) ELSE {}

\* The names of the nested serializers of serializer class s.
NestedNames(s) ==
    {Fields(s)[k].name :
        k \in {j \in DOMAIN Fields(s) : IsSerializerField(Fields(s)[j])}}

\* include=A.B with A a nested serializer of the root and B a field with an
\* inclusion serializer on A's serializer.
IsNestedRequest(A, B) ==
    /\ include = Given(<<<<A, B>>>>)
    /\ A \in NestedNames(root)
    /\ B \in DOMAIN InclusionSerializers(FieldNamed(root, A).ser)

\* C5: for include=A.B with A nested, the inclusions hold under the model
\* of B exactly the rows referenced at A.B over the payload items, and no
\* other model key holds a row: a root field that was not requested
\* contributes nothing.
C5_NestedPathOnly ==
    \A A \in NestedNames(root) :
        \A B \in DOMAIN InclusionSerializers(FieldNamed(root, A).ser) :
            (pc = "done" /\ IsWrapped /\ IsNestedRequest(A, B)) =>
                LET target == FieldNamed(FieldNamed(root, A).ser, B).model
                IN /\ IncludedIds(target) = RowsAt(root, PayloadRows, <<A, B>>)
                   /\ \A key \in DOMAIN FinalInclusions \ {target} :
                          FinalInclusions[key] = <<>>

\* The child's own tags hold a row its parent's tags do not, and the child
\* has childprops: neither is included.
C5_Witness ==
    /\ pc = "done"
    /\ IsWrapped
    /\ root = "ChildSerializer"
    /\ shape = "detail"
    /\ IsNestedRequest("parent", "tags")
    /\ RowsAt(root, PayloadRows, <<"parent", "tags">>) = {1}
    /\ RowsAt(root, PayloadRows, <<"tags">>) = {1, 2}
    /\ RowsAt(root, PayloadRows, <<"childprops">>) # {}
    /\ IncludedIds("testapp.Tag") = {1}

\* include=A.B with A a relational field of the root that has an inclusion
\* serializer, and B a field with an inclusion serializer on that one.
IsChainedRequest(A, B) ==
    /\ include = Given(<<<<A, B>>>>)
    /\ A \in DOMAIN InclusionSerializers(root)
    /\ B \in DOMAIN InclusionSerializers(InclusionSerializers(root)[A])

\* The rows under a model key of the final inclusions are rendered by
\* serializer class s.
RenderedBy(key, s) ==
    \A k \in DOMAIN FinalInclusions[key] :
        FinalInclusions[key][k]
          = ToRepresentation(s, FinalInclusions[key][k].v["id"].v)

DefinitionKeys ==
    {model_key(inclusion_definitions[k]) : k \in DOMAIN inclusion_definitions}

\* The rows the payload references along the data paths of the definitions
\* of a model key that have no inclusion path.
DirectRows(key) ==
    UNION {LET d == inclusion_definitions[k]
           IN IF d.inclusion_path = NoPath /\ model_key(d) = key
              THEN UNION {RowsAt(root, PayloadRows, d.data_paths[j]) :
                             j \in DOMAIN d.data_paths}
              ELSE {} :
           k \in DOMAIN inclusion_definitions}

\* The rows the definitions with an inclusion path T:f add to a model key,
\* given the rows S[T] included of every model T.
ChainedRows(S, key) ==
    UNION {LET d == inclusion_definitions[k]
               source == d.inclusion_path.model_key
           IN IF /\ d.inclusion_path # NoPath
                 /\ model_key(d) = key
                 /\ source \in DOMAIN S
                 /\ Len(d.inclusion_path.path) = 1
              THEN UNION {StoredRefs(d.field.owner, j, d.field) : j \in S[source]}
              ELSE {} :
           k \in DOMAIN inclusion_definitions}

RECURSIVE ChainedClosure(_)
\* The least sets of rows per model key that hold S and are closed under
\* the definitions with an inclusion path.
ChainedClosure(S) ==
    LET T == [key \in DOMAIN S |-> S[key] \cup ChainedRows(S, key)]
    IN IF T = S THEN S ELSE ChainedClosure(T)

\* What the definitions of the call reference in the data, chains followed
\* to the end.
ReferencedRows ==
    ChainedClosure([key \in DefinitionKeys |-> DirectRows(key)])

\* C7, as stated: with include=* every includable reference field, at the
\* root, in nested serializers and on the serializers of included rows,
\* contributes every row it references in the data.  It is stated for the
\* definitions the walk produced, so a field the cycle check left out is not
\* asked for.
C7_WildcardIncludesAll ==
    (pc = "done" /\ IsWrapped /\ include = Given(Wildcard)) =>
        \A key \in DefinitionKeys :
            ReferencedRows[key] \subseteq IncludedIds(key)

\* The ids of the rows included under a model key when extract_inclusions
\* returns.
ResolvedIds(key) ==
    UNION {IF model_key(inclusions[k].definition) = key
           THEN inclusions[k].pks \cap Ids ELSE {} :
           k \in DOMAIN inclusions}

\* C8, as stated: when extract_inclusions returns, every request-relevant
\* inclusion with an inclusion path T:f holds the ids found at f in every
\* included row of T, whichever inclusion contributed the row and whenever
\* it resolved.
C8_FixedPoint ==
    (pc = "hoist" /\ ToInclude(include) # <<>>) =>
        \A k \in DOMAIN inclusions :
            LET d == inclusions[k].definition
            IN (/\ d.inclusion_path # NoPath
                /\ Len(d.inclusion_path.path) = 1
                /\ RelevantRoots(d, requested_roots) # {})
               => \A j \in ResolvedIds(d.inclusion_path.model_key) :
                      StoredRefs(d.field.owner, j, d.field)
                        \subseteq inclusions[k].pks

\* A serializer class from which a cycle of serializer classes is reached.
ReachesCycle(s) ==
    \E t \in ReachableFrom({s}) : t \in ReachableFrom(NextSerializers(t))

\* The inclusion serializers of the serializers of S.
IncludedBy(S) ==
    UNION {{InclusionSerializers(s)[n] : n \in DOMAIN InclusionSerializers(s)} :
              s \in S}

RECURSIVE IncludedFrom(_)
\* The serializer classes reached from those of S along includable
\* references alone.
IncludedFrom(S) ==
    LET T == S \cup IncludedBy(S)
    IN IF T = S THEN S ELSE IncludedFrom(T)

\* A serializer class from which a cycle of includable references is
\* reached.
ReachesReferenceCycle(s) ==
    \E t \in ReachableFrom({s}) : t \in IncludedFrom(IncludedBy({t}))

\* C9: on a schema graph with a cycle the walk ends, records no referrer
\* twice for a serializer class, and a root A whose field f leads to B whose
\* field g leads back to A gets the rows at f under B's model and the rows
\* at f.g under A's, and no more.
C9_CycleEnds ==
    ReachesReferenceCycle(root) =>
        LET w == determine_inclusion_definitions(root, <<>>, NoPath,
                                                 NoReferences, 1)
        IN /\ ~w.overflow
           /\ raised # "RecursionError"
           /\ \A k \in DOMAIN w.dicts : NoDuplicates(w.dicts[k])
           /\ \A f \in DOMAIN InclusionSerializers(root) :
                \A g \in DOMAIN InclusionSerializers(InclusionSerializers(root)[f]) :
                   (/\ InclusionSerializers(InclusionSerializers(root)[f])[g] = root
                    /\ pc = "done" /\ IsWrapped
                    /\ include \in {Given(Wildcard), Given(<<<<f>>>>)})
                   => /\ IncludedIds(FieldNamed(root, f).model)
                           = RowsAt(root, PayloadRows, <<f>>)
                      /\ IncludedIds(MetaModel(root))
                           = RowsAt(root, PayloadRows, <<f, g>>)

C9_Witness ==
    /\ pc = "done"
    /\ IsWrapped
    /\ root = "ChildSerializer3"
    /\ ReachesReferenceCycle(root)
    /\ shape = "detail"
    /\ include = Given(Wildcard)
    /\ Len(inclusion_definitions) = 2
    /\ IncludedIds("testapp.Parent") = {1}
    /\ IncludedIds("testapp.Child") = {2}
    /\ RowsAt("ChildSerializer3", {2}, <<"parent">>) = {2}

\* C10, as stated: without an include parameter, or with an empty one, the
\* inclusions are empty and the call walks no schema, merges nothing,
\* extracts no identifier and fetches nothing.
C10_NoWorkWithoutInclude ==
    ToInclude(include) = <<>> =>
        /\ walks = 0 /\ merges = 0 /\ extractions = 0 /\ fetches = 0
        /\ (pc = "done" /\ IsWrapped) => DOMAIN FinalInclusions = {}

\* The canonical sort key of a rendered entity: its id, else its pk, else
\* its url.
CanonicalKey(item) ==
    IF "id" \in DOMAIN item.v THEN item.v["id"].v
    ELSE IF "pk" \in DOMAIN item.v THEN item.v["pk"].v
    ELSE item.v["url"].v

Ascending(items) ==
    \A a, b \in DOMAIN items :
        a < b => CanonicalKey(items[a]) <= CanonicalKey(items[b])

\* The pks of the entries of a model key, in the order the loader drew them.
DrawnPks(key) ==
    LET of == SelectSeq(entries, LAMBDA e : get_model_key(e.obj) = key)
    IN [k \in DOMAIN of |-> of[k].obj.pk]

\* C11: every list of the inclusions mapping is in ascending order of the
\* canonical sort key of its entities, whatever the order of discovery, of
\* the merged inclusions and of the rows the store returns: the lists
\* hoist_inclusions returns, and the lists inclusions_dict returns.
C11_SortedLists ==
    /\ (pc \in {"wrap", "done"} /\ raised = "") =>
          \A key \in DOMAIN hoisted : Ascending(hoisted[key])
    /\ pc = "returned" =>
          \A key \in DOMAIN result : Ascending(result[key])

\* The loader drew the tags of the parents in descending order, from a
\* store that returns them so.
C11_Witness ==
    /\ pc = "returned"
    /\ storeDesc
    /\ root = "ParentSerializer"
    /\ shape = "list"
    /\ DrawnPks("testapp.Tag") = <<2, 1>>
    /\ IdSeq(result["testapp.Tag"]) = <<1, 2>>

\* Whether a rendered entity has an id, a pk or a url.
HasSortKey(item) == DOMAIN item.v \cap {"id", "pk", "url"} # {}

\* C12, as stated: the sort key of a rendered entity is its id, else its
\* pk, else its url, and sorting the lists raises only over an entity that
\* has none of the three; an entity rendered with nothing but its url is
\* sorted, not rejected.
C12_UrlIsASortKey ==
    /\ (pc = "raised" /\ raised = "ValueError") =>
          \E key \in DOMAIN hoisted :
             \E k \in DOMAIN hoisted[key] : ~HasSortKey(hoisted[key][k])
    /\ (pc = "failed" /\ raised = "ValueError") =>
          \E key \in DOMAIN result :
             \E k \in DOMAIN result[key] : ~HasSortKey(result[key][k])

RECURSIVE SerializerStack(_)
\* The serializers of S with their nested sub-serializers, recursively.
SerializerStack(S) ==
    LET U == S \cup UNION {{Fields(s)[k].ser :
                              k \in {j \in DOMAIN Fields(s) :
                                       Fields(s)[j].kind \in {"nested", "nestedmany"}}} :
                           s \in S}
    IN IF U = S THEN S ELSE SerializerStack(U)

\* Some serializer of the stack of the payload's serializer declares a
\* non-empty inclusion_serializers.
StackDeclaresInclusions ==
    \E s \in SerializerStack({root}) : DOMAIN InclusionSerializers(s) # {}

\* C13: under a custom action, the payload is handed on as it is and no
\* schema is walked, nothing merged, extracted or fetched, if and only if
\* no serializer of the stack of the payload's serializer declares
\* inclusions; under a standard action the payload is wrapped even when no
\* serializer declares any.
C13_CustomActionSkip ==
    (StatusBelow400 /\ ProducedBySerializer) =>
        /\ (view = "custom" /\ ~StackDeclaresInclusions) =>
              /\ pc \in {"render", "done"}
              /\ walks = 0 /\ merges = 0 /\ extractions = 0 /\ fetches = 0
              /\ pc = "done" => (body = Data /\ ~IsWrapped)
        /\ (view = "custom" /\ StackDeclaresInclusions) =>
              /\ pc \notin {"render", "extract_relations"} => walks = 1
              /\ pc = "done" => IsWrapped
        /\ (view = "standard" /\ pc = "done") => IsWrapped

\* A custom action of a serializer that declares no inclusions itself, but
\* has a nested serializer that does.
C13_Witness ==
    /\ pc = "done"
    /\ view = "custom"
    /\ response = Response(200)
    /\ root = "CSerializer"
    /\ DOMAIN InclusionSerializers(root) = {}
    /\ StackDeclaresInclusions
    /\ IsWrapped
    /\ walks = 1

\* The paths of the include parameter that name no field of the schema, and
\* the first segments of the others.
UnknownRequested ==
    {k \in DOMAIN include.paths : "nonexistent" \in Range(include.paths[k])}
KnownRoots ==
    {Head(include.paths[k]) : k \in DOMAIN include.paths \ UnknownRequested}

\* The rows the payload references along the data paths that begin with a
\* segment of rs, of the definitions of a model key that have no inclusion
\* path.
DirectRowsUnder(key, rs) ==
    UNION {LET d == inclusion_definitions[k]
           IN IF d.inclusion_path = NoPath /\ model_key(d) = key
              THEN UNION {IF Head(d.data_paths[j]) \in rs
                          THEN RowsAt(root, PayloadRows, d.data_paths[j])
                          ELSE {} :
                             j \in DOMAIN d.data_paths}
              ELSE {} :
           k \in DOMAIN inclusion_definitions}

\* C14, as stated: a path of the include parameter that names no field or
\* definition of the schema is ignored.  Requested alone it raises no error
\* and leaves every list of the inclusions empty; requested with paths that
\* name fields it adds nothing to what those reference in the data, chains
\* followed to the end.
C14_UnknownPathIgnored ==
    (include.given /\ UnknownRequested # {} /\ Wildcard[1] \notin Range(include.paths)) =>
        /\ KnownRoots = {} => raised = ""
        /\ (pc = "done" /\ IsWrapped) =>
              \A key \in DOMAIN FinalInclusions :
                 IncludedIds(key) \subseteq
                    ChainedClosure([m \in DefinitionKeys |->
                                       DirectRowsUnder(m, KnownRoots)])[key]

-----------------------------------------------------------------------------
(* Algebra of the two merges.                                              *)

\* The grouping of a list of definitions: the set of data paths of each.
Grouping(definitions) ==
    {Range(definitions[k].data_paths) : k \in DOMAIN definitions}

\* The identifiers a list of inclusions holds per model key.
IdentifiersPerType(incls) ==
    [key \in {model_key(incls[k].definition) : k \in DOMAIN incls} |->
        UNION {incls[k].pks :
                 k \in {j \in DOMAIN incls : model_key(incls[j].definition) = key}}]

\* C15: merging is idempotent.  merge_inclusion_definitions applied to its
\* own output gives as many definitions with the same sets of data paths as
\* one application gave, on the lists of definitions handed to it on their
\* own and on those the walk of a schema gives; Inclusion.merge applied to
\* its own output, on every list of inclusions a call of render holds,
\* gives the same identifiers per model key.
C15_MergeIdempotent ==
    /\ pc = "merged_again" =>
          LET once == merge_inclusion_definitions(given)
          IN /\ Len(inclusion_definitions) = Len(once)
             /\ Grouping(inclusion_definitions) = Grouping(once)
    /\ pc = "extract_inclusions" =>
          LET twice == merge_inclusion_definitions(inclusion_definitions)
          IN /\ Len(twice) = Len(inclusion_definitions)
             /\ Grouping(twice) = Grouping(inclusion_definitions)
    /\ ~MergeAssertionFails(inclusions) =>
          LET once == InclusionMerge(inclusions)
          IN /\ ~MergeAssertionFails(once)
             /\ IdentifiersPerType(InclusionMerge(once)) = IdentifiersPerType(once)

\* Four definitions were given, three of them were joined into one, and
\* the merge has been applied to its own output.
C15_Witness ==
    /\ pc = "merged_again"
    /\ Len(given) = 4
    /\ \E k \in DOMAIN inclusion_definitions :
          Len(inclusion_definitions[k].data_paths) = 3

\* The relation of the two definitions at positions a and b of the given
\* list: neither waits for the data of another inclusion, both range over
\* the queryset object of one relational field's model, and both render
\* with one serializer class.
SameGroup(a, b) ==
    /\ given[a].inclusion_path = NoPath
    /\ given[b].inclusion_path = NoPath
    /\ ~given[a].field.ro
    /\ ~given[b].field.ro
    /\ given[a].field.model = given[b].field.model
    /\ given[a].serializer_class = given[b].serializer_class

\* The given definitions in every order.
Reorderings ==
    {l \in Arrangements(Range(given), Len(given)) : Len(l) = Len(given)}

\* C16: merge_inclusion_definitions partitions the given definitions by
\* the mergeability relation.  No data path is lost and none is duplicated:
\* the data paths of the output definitions are pairwise disjoint, free of
\* repetitions, and together those of the input.  Two given definitions
\* share an output definition exactly if they are mergeable; a definition
\* with an inclusion path comes out as it went in; and the grouping is
\* the same for every order of the input.
C16_MergePartitions ==
    pc = "merged" =>
        LET out == inclusion_definitions
            paths(k) == Range(out[k].data_paths)
            at(a) == given[a].data_paths[1]
        IN /\ \A k \in DOMAIN out : Len(out[k].data_paths) = Cardinality(paths(k))
           /\ \A j, k \in DOMAIN out : j # k => paths(j) \cap paths(k) = {}
           /\ UNION {paths(k) : k \in DOMAIN out} = {at(a) : a \in DOMAIN given}
           /\ \A a, b \in DOMAIN given :
                 a # b =>
                    ((\E k \in DOMAIN out : {at(a), at(b)} \subseteq paths(k))
                        <=> SameGroup(a, b))
           /\ \A a \in DOMAIN given :
                 given[a].inclusion_path # NoPath =>
                    \E k \in DOMAIN out : out[k] = given[a]
           /\ \A l \in Reorderings :
                 Grouping(merge_inclusion_definitions(l)) = Grouping(out)

\* Four definitions were merged into three: two were joined, one with the
\* same queryset and another serializer class was not, and one with an
\* inclusion path passed through.
C16_Witness ==
    /\ pc = "merged"
    /\ Len(given) = 4
    /\ Len(inclusion_definitions) = 3
    /\ \E k \in DOMAIN inclusion_definitions :
          inclusion_definitions[k].inclusion_path # NoPath
    /\ \E j, k \in DOMAIN inclusion_definitions :
          /\ Len(inclusion_definitions[j].data_paths) = 2
          /\ inclusion_definitions[k].serializer_class = "TagLinkSerializer"

-----------------------------------------------------------------------------
(* The allow-list and the seen-set of InclusionLoader.                     *)

\* Whether allowed_paths lets a field path through: None lets every path
\* through, a list the paths it holds.
OnAllowList(path) ==
    \/ allowed_paths = AllPaths
    \/ path \in allowed_paths.paths

\* The related rows the store holds for field f of object obj.
RelatedRows(obj, f) ==
    IF f.kind \in {"many", "nestedmany"}
    THEN AttrMany(obj.model, obj.pk, f.name)
    ELSE {AttrOne(obj.model, obj.pk, f.name)} \ {None}

RECURSIVE OpenBranches(_, _, _)
\* What stands one inclusion away from object obj, walked with serializer
\* class s at path: the objects its includable reference fields with a
\* path on the allow-list lead to, its own fields and those of the nested
\* serializers below it, each with its inclusion serializer and the path
\* of the field.
OpenBranches(s, obj, path) ==
    UNION {LET f == Fields(s)[k]
               field_path == Append(path, f.name)
           IN IF IsSerializerField(f)
              THEN UNION {OpenBranches(f.ser, Obj(MetaModel(f.ser), j), field_path) :
                             j \in RelatedRows(obj, f)}
              ELSE IF /\ f.name \in DOMAIN InclusionSerializers(s)
                      /\ f.kind \in {"related", "many"}
                      /\ OnAllowList(field_path)
              THEN {[obj |-> Obj(f.model, j),
                     serializer |-> InclusionSerializers(s)[f.name],
                     path |-> field_path] : j \in RelatedRows(obj, f)}
              ELSE {} :
           k \in DOMAIN Fields(s)}

\* A place the walk looks for inclusions from: an object, the serializer
\* class it is walked with, and the path its fields are counted from.
Context(s, obj, path) == [serializer |-> s, obj |-> obj, path |-> path]

\* The objects of the serializer handed to inclusions_dict.
RootContexts ==
    CASE shape = "list" -> {Context(root, Obj(MetaModel(root), j), <<>>) : j \in Ids}
      [] shape = "detail" -> {Context(root, Obj(MetaModel(root), 1), <<>>)}
      [] OTHER -> {}

\* The place the walk goes on from below an entry: the parent's path, or
\* the path of the field for a loader that uses the complete path.
EntryContext(entry) ==
    Context(entry.serializer, entry.obj,
            IF complete_path THEN entry.path
            ELSE SubSeq(entry.path, 1, Len(entry.path) - 1))

\* The places the walk has looked from before it yielded the k-th entry.
ContextsBefore(k) ==
    RootContexts \cup {EntryContext(entries[j]) : j \in 1..(k - 1)}

\* C17: the allow-list of InclusionLoader.  With an empty list no entity
\* is included.  With a list, every included entity comes from an
\* includable reference field whose path is on the list, reached from the
\* serializer handed in or from an entity included before it, so that
\* nothing is reached through a field that is off the list.  Whatever
\* allowed_paths is, and so with None for every includable branch, every
\* entity that stands one listed field away from the serializer handed in
\* or from an included entity is included once the walk returns.
C17_AllowList ==
    pc \in {"entries", "returned", "failed"} =>
        /\ allowed_paths = AllowedPaths({}) =>
              generator.entries = <<>> /\ result = EmptyDict
        /\ \A k \in DOMAIN entries :
              /\ OnAllowList(entries[k].path)
              /\ \E c \in ContextsBefore(k) :
                    [obj |-> entries[k].obj, serializer |-> entries[k].serializer,
                     path |-> entries[k].path]
                       \in OpenBranches(c.serializer, c.obj, c.path)
        /\ pc = "returned" =>
              \A c \in ContextsBefore(Len(entries) + 1) :
                 \A b \in OpenBranches(c.serializer, c.obj, c.path) :
                    \E k \in DOMAIN entries : entries[k].obj = b.obj

\* A walk with a list of paths has returned with entries, one of them from
\* a field with a path of two segments, and has left out an includable
\* field of the serializer handed in that leads to a row and is not on the
\* list.
C17_Witness ==
    /\ pc = "returned"
    /\ allowed_paths # AllPaths
    /\ \E k \in DOMAIN entries : Len(entries[k].path) = 2
    /\ \E k \in DOMAIN Fields(root) :
          /\ Fields(root)[k].name \in DOMAIN InclusionSerializers(root)
          /\ <<Fields(root)[k].name>> \notin allowed_paths.paths
          /\ RelatedRows(Obj(MetaModel(root), 1), Fields(root)[k]) # {}

\* The entity reference key of an entry: the label of the model of its
\* object and the pk.
EntryKey(entry) == <<entry.obj.model, entry.obj.pk>>

\* The number of rows inclusions_dict holds.
RECURSIVE RowCount(_)
RowCount(keys) ==
    IF keys = {} THEN 0
    ELSE LET key == CHOOSE x \in keys : TRUE
         IN Len(result[key]) + RowCount(keys \ {key})

\* No two entries of the walk have one key, every entry drawn is
\* serialized into one row of the result, and the keys of the entries
\* drawn are in the seen-set.
EmittedOnce ==
    /\ \A j, k \in DOMAIN generator.entries :
          j # k => EntryKey(generator.entries[j]) # EntryKey(generator.entries[k])
    /\ RowCount(DOMAIN result) = Len(entries)
    /\ \A k \in DOMAIN entries :
          /\ EntryKey(entries[k]) \in seen
          /\ \E row \in Range(result[get_model_key(entries[k].obj)]) :
                row = ToRepresentation(entries[k].serializer, entries[k].obj.pk)

\* C18: in one run of InclusionLoader every entity reference key is
\* emitted at most once and serialized once, however often the object is
\* reached, and the seen-set only grows.
C18_EmittedOnce == []EmittedOnce /\ [][seen \subseteq seen']_vars

\* The walk has returned, and an object it emitted stands one listed field
\* away from two objects the walk looked from, through fields of two
\* names.
C18_Witness ==
    /\ pc = "returned"
    /\ \E c, d \in ContextsBefore(Len(entries) + 1) :
          /\ c.obj # d.obj
          /\ \E b \in OpenBranches(c.serializer, c.obj, c.path) :
                \E a \in OpenBranches(d.serializer, d.obj, d.path) :
                   a.obj = b.obj /\ a.path # b.path

-----------------------------------------------------------------------------
(* Errors of the schema declarations.                                      *)

\* The fields serializer class s names in inclusion_serializers that are
\* neither a reference to one object, nor to many, nor a nested serializer.
MisdeclaredFields(s) ==
    {name \in DOMAIN InclusionSerializers(s) :
        LET f == DeclaredField(s, name)
        IN ~IsRelational(f) /\ ~IsSerializerField(f)}

\* The include parameter covers the field of that name of the serializer
\* that rendered the payload.
IncludeCovers(name) ==
    \E k \in DOMAIN ToInclude(include) :
        ToInclude(include)[k] \in {<<"*">>, <<name>>}

\* A call of render for a successful response of a standard action that
\* covers a misdeclared field does not end with a body.
RendererRaises ==
    \A name \in MisdeclaredFields(root) :
        (view = "standard" /\ StatusBelow400 /\ ProducedBySerializer
            /\ IncludeCovers(name))
        => pc # "done"

\* A call of inclusions_dict over a serializer with a misdeclared field
\* whose path passes allowed_paths does not return.
LoaderRaises ==
    \A name \in MisdeclaredFields(root) :
        (shape \in {"detail", "list"} /\ OnAllowList(<<name>>))
        => pc # "returned"

\* C19: a field named in inclusion_serializers that is no reference and no
\* nested serializer is a fatal error: a request that covers the field
\* ends in an exception, in render as well as in InclusionLoader.
C19_ConfigErrorFatal == RendererRaises /\ LoaderRaises

-----------------------------------------------------------------------------
(* The loop of extract_inclusions over the unresolved inclusions.          *)

\* The assertion on the number of rounds has failed.
RoundBoundFired == raised = "AssertionError" /\ i >= MaxRounds

\* C20: the while loop of extract_inclusions ends without the assertion on
\* the number of rounds failing, and what extract_inclusions returns holds
\* resolved inclusions only: no inclusion one of whose roots was requested
\* waits for ever for a model key that never enters the resolved map.
C20_LoopEnds ==
    /\ ~RoundBoundFired
    /\ pc \in {"hoist", "wrap", "done"} =>
          \A k \in DOMAIN inclusions : inclusions[k].resolved

-----------------------------------------------------------------------------
(* The Inclusion objects of one call of extract_inclusions.                *)

\* From Inclusion.merge on, the list holds the same objects, and a step
\* leaves a resolved one as it is and takes no pk from any.
KeepsResolved ==
    /\ Len(inclusions') = Len(inclusions)
    /\ \A k \in DOMAIN inclusions :
          /\ inclusions'[k].definition = inclusions[k].definition
          /\ inclusions[k].pks \subseteq inclusions'[k].pks
          /\ inclusions[k].resolved => inclusions'[k] = inclusions[k]

\* C21: the life of an Inclusion.  In the while loop of extract_inclusions
\* and in hoist_inclusions an inclusion that is resolved stays resolved
\* and keeps its pks, and the pks of an unresolved one only grow.
C21_Lifecycle ==
    [][(pc \in {"while", "for", "hoist", "wrap"}) => KeepsResolved]_vars

\* The loop is in its second round at least, with an inclusion it resolved
\* from the data of its source and an inclusion still unresolved.
C21_Witness ==
    /\ pc = "for"
    /\ i >= 2
    /\ \E k \in DOMAIN inclusions :
          /\ inclusions[k].resolved
          /\ inclusions[k].definition.inclusion_path # NoPath
          /\ inclusions[k].pks # {}
    /\ \E k \in DOMAIN inclusions : ~inclusions[k].resolved

\* The inclusions of a list that hold model key and are resolved or not.
InclusionsOf(incls, key, isResolved) ==
    {k \in DOMAIN incls :
        /\ model_key(incls[k].definition) = key
        /\ incls[k].resolved = isResolved}

\* What Inclusion.merge makes of the inclusions handed to it: per model key
\* one resolved inclusion with the pks of the resolved ones handed in, if
\* there are any, and one unresolved inclusion without pks per inclusion
\* path of the unresolved ones.
MergedApart(given_inclusions, merged) ==
    LET keys == {model_key(given_inclusions[k].definition) :
                    k \in DOMAIN given_inclusions}
    IN /\ {model_key(merged[k].definition) : k \in DOMAIN merged} = keys
       /\ \A key \in keys :
             LET resolved_in == InclusionsOf(given_inclusions, key, TRUE)
                 resolved_out == InclusionsOf(merged, key, TRUE)
                 waiting_in == InclusionsOf(given_inclusions, key, FALSE)
                 waiting_out == InclusionsOf(merged, key, FALSE)
                 path(incls, k) == incls[k].definition.inclusion_path
             IN /\ Cardinality(resolved_out) = IF resolved_in = {} THEN 0 ELSE 1
                /\ \A k \in resolved_out :
                      /\ merged[k].pks =
                            UNION {given_inclusions[j].pks : j \in resolved_in}
                      /\ \E j \in resolved_in :
                            merged[k].definition = given_inclusions[j].definition
                /\ \A k \in waiting_out :
                      /\ merged[k].pks = {}
                      /\ \E j \in waiting_in :
                            merged[k].definition = given_inclusions[j].definition
                /\ \A j \in waiting_in :
                      Cardinality({k \in waiting_out :
                                     path(merged, k) = path(given_inclusions, j)}) = 1
                /\ \A j, k \in waiting_out :
                      j # k => path(merged, j) # path(merged, k)

-----------------------------------------------------------------------------
(* Requested and unrequested definitions.                                  *)

\* The definitions an inclusion stands for: its own, and for an unresolved
\* inclusion out of Inclusion.merge those of its group, with its model key
\* and its inclusion path.
StandsFor(inclusion) ==
    {d \in Range(inclusion_definitions) :
        \/ d = inclusion.definition
        \/ /\ inclusion.definition.inclusion_path # NoPath
           /\ model_key(d) = model_key(inclusion.definition)
           /\ d.inclusion_path = inclusion.definition.inclusion_path}

\* None of the definitions the inclusion stands for has a requested root.
Unrequested(inclusion) ==
    \A d \in StandsFor(inclusion) : RelevantRoots(d, requested_roots) = {}

\* A step of the loop resolves the inclusion at pos on the empty dataset:
\* its source is not in the resolved map.
PrunesAtPos ==
    /\ pc = "for"
    /\ ~inclusions[pos].resolved
    /\ inclusions[pos].definition.inclusion_path.model_key \notin DOMAIN resolved
    /\ inclusions'[pos].resolved

\* C23: an inclusion that waits for the data of its source is resolved on
\* the empty dataset only if the request has no use for it: none of the
\* definitions it stands for has a requested root, whichever of them
\* Inclusion.merge kept and whenever the source enters the resolved map.
C23_PrunedOnlyIfUnrequested ==
    [][PrunesAtPos => Unrequested(inclusions[pos])]_vars

\* C24: a definition none of whose roots was requested contributes no
\* identifier: an inclusion that stands for unrequested definitions only
\* holds no pks, whether or not its source is in the resolved map.
C24_UnrequestedIsEmpty ==
    \A k \in DOMAIN inclusions :
        Unrequested(inclusions[k]) => inclusions[k].pks = {}

-----------------------------------------------------------------------------
(* One fetch for an entity type                                            *)

\* The resolved inclusions of a list.
ResolvedCount(incls) == Cardinality({k \in DOMAIN incls : incls[k].resolved})

\* C25: hoisting fetches the rows of each entity type with one call to the
\* store, one for each key of the mapping it returns, and no step of a
\* render fetches more often than once for an inclusion it has resolved,
\* however many pks the inclusion holds.
C25_OneFetchPerType ==
    [][/\ fetches' - fetches <= ResolvedCount(inclusions')
       /\ (pc = "hoist" => fetches' = fetches + Cardinality(DOMAIN hoisted'))]_vars

\* A finished render that hoisted two entity types, one of them with two
\* rows, with one fetch each.
C25_Witness ==
    /\ pc = "done"
    /\ fetches >= 2
    /\ \E a, b \in DOMAIN hoisted :
          /\ a # b
          /\ Len(hoisted[a]) >= 2
          /\ Len(hoisted[b]) >= 1

-----------------------------------------------------------------------------
(* The walk of an acyclic schema graph                                     *)

RECURSIVE SchemaPaths(_, _)
\* The data paths of the includable fields on every path of the schema
\* graph that starts at serializer s; the graph from s on has no cycle.
SchemaPaths(s, data_path_start) ==
    UNION {LET f == Fields(s)[k]
               data_path == get_data_path(data_path_start, f.name)
               cls == get_inclusion_serializer_class(s, f.name)
           IN IF IsSerializerField(f) THEN SchemaPaths(f.ser, data_path)
              ELSE IF IsRelational(f) /\ cls # ""
              THEN {data_path} \cup SchemaPaths(cls, data_path)
              ELSE {} : k \in DOMAIN Fields(s)}

\* The data paths of the definitions of a list.
DataPathsOf(definitions) ==
    UNION {Range(definitions[k].data_paths) : k \in DOMAIN definitions}

\* C26: on a schema graph without a cycle the walk truncates nothing: it
\* emits a definition under the data path of every includable field on
\* every path of the graph, also for a referrer that two sibling branches
\* reach, at whatever depth the branches part.
C26_TruncatesOnlyCycles ==
    (pc = "merge_definitions" /\ ~ReachesCycle(Serializer)) =>
        DataPathsOf(inclusion_definitions) = SchemaPaths(Serializer, <<>>)

-----------------------------------------------------------------------------
(* The walk of a schema graph with a cycle through a nested serializer     *)

\* C27: the walk of determine_inclusion_definitions ends on every schema
\* graph, also on one with a cycle that passes through a nested serializer
\* (A nests B and B includes a field with A): the recursion never runs out
\* of depth.
C27_WalkEnds == ~(walks > 0 /\ raised = "RecursionError")

-----------------------------------------------------------------------------
(* Null references in the extracted identifiers                            *)

\* C28: get_pks yields the identifiers at the path and no null entry: a
\* single-valued reference that is null contributes nothing, so the pks
\* of no inclusion, which extract_inclusions takes from get_pks alone,
\* hold None.
C28_NoNullIdentifier ==
    \A k \in DOMAIN inclusions : None \notin inclusions[k].pks

-----------------------------------------------------------------------------
(* The end of the walk of InclusionLoader                                  *)

\* _seen as the walk found it when it came to its k-th entry.
SeenBefore(k) == IF k = 1 THEN {} ELSE generator.entries[k - 1].seen

\* C29: the walk of inclusions_dict ends, on objects and serializers that
\* lead back to each other too: it never runs out of depth, each entry it
\* yields, and walks in its turn, puts a key into _seen that was not there,
\* and so it yields as many entries as _seen holds keys at its end.
C29_LoaderEnds ==
    /\ generator.raised # "RecursionError"
    /\ \A k \in DOMAIN generator.entries :
          LET entry == generator.entries[k]
          IN /\ EntryKey(entry) \notin SeenBefore(k)
             /\ entry.seen = SeenBefore(k) \cup {EntryKey(entry)}
    /\ Len(generator.entries) = Cardinality(generator.seen)

\* The walk has returned from a serializer on a cycle of includable
\* references, and an object it yielded leads back, along an includable
\* field, to an object it had yielded before.
C29_Witness ==
    /\ pc = "returned"
    /\ ReachesReferenceCycle(root)
    /\ \E j, k \in DOMAIN entries :
          /\ j < k
          /\ entries[j].obj \in
                {b.obj : b \in OpenBranches(entries[k].serializer,
                                            entries[k].obj, <<>>)}

-----------------------------------------------------------------------------
(* Definitions are left as they were made                                  *)

\* The steps of extract_relations after the definitions are merged.
AfterMergedDefinitions ==
    pc \in {"extract_inclusions", "merge_inclusions", "while", "for", "hoist",
            "wrap"}

=============================================================================
